---- MODULE Spec2Model ----
(***************************************************************************)
(* AlphaSuite scanner pipeline: BaseScanner.run_scan and the scanners      *)
(* built on it (scanners/scanner_sdk.py, scanners/*.py).                   *)
(*                                                                         *)
(* Numbers are exact rationals <<num, den>> with den > 0, kept in lowest   *)
(* terms; Python None, SQL NULL and NaN are the empty tuple.               *)
(***************************************************************************)
EXTENDS Integers, Sequences, FiniteSets, TLC

VARIABLES
    company,         \* Company table: id -> row
    price_history,   \* PriceHistory table: id -> raw bars ordered by date
    scanner,         \* the scanner instance: [kind, params, leading, sort_by, ascending]
    pc,              \* position of the run
    candidate_map,   \* run_scan: id -> fundamentals snapshot (a dict)
    price_df,        \* run_scan: id -> adjusted bars of that company
    todo,            \* run_scan: ids the company loop still has to visit
    scanned,         \* ids on which scan_company was invoked, in call order
    passing_stocks,  \* run_scan: the records collected so far
    result,          \* what run_scan returned: a table, or NoResult
    h_scanners,      \* scan_company calls: the scanner instances called
    h_group,         \* scan_company calls: the bar sequence passed to every call
    h_info,          \* scan_company calls: per instance, the snapshot dict passed
    h_log,           \* scan_company calls: per instance, the outcomes so far
    exchange_table,  \* Exchange table: the ids of the committed rows, in insert order
    db,              \* the session of _populate_exchange_table: [open, new, flushed]
    init_pc,         \* position of initialize_database_schema
    init_ok,         \* the call under way has raised no exception
    init_calls,      \* the calls of initialize_database_schema that returned
    exchange_first,  \* the table as the first call without an exception left it
    bt_data,         \* backtest page: symbol -> bars ordered by date, as load_data returns
    bt_range,        \* backtest page: <<start_date, end_date>> of the date inputs
    bt_pc,           \* backtest page: position of the script
    current_date,    \* backtest: the trading day of the loop, 0 before the first
    daily_data,      \* backtest: the data handed to run_all_scanners on that day
    signals,         \* backtest: what run_all_scanners returned on that day
    results,         \* backtest: strategy -> trade returns in percent
    equity,          \* backtest: strategy -> equity curve
    widgets,         \* scanner page: the values of the filter form as last submitted
    generic_filters, \* scanner page: st.session_state.generic_filters
    last_click,      \* scanner page: the button of the latest script run
    sent,            \* scanner page: the params of the latest scanner instance
    generic_scanner_results_df   \* scanner page: the stored result, "empty" or "table"

\* the state of a run of run_scan, and of direct calls of scan_company
rvars == <<candidate_map, price_df, todo, scanned, passing_stocks, result>>
hvars == <<h_scanners, h_group, h_info, h_log>>

\* the state of initialize_database_schema
dvars == <<exchange_table, db, init_pc, init_ok, init_calls, exchange_first>>

\* the state of the backtest page
bvars == <<bt_data, bt_range, bt_pc, current_date, daily_data, signals, results, equity>>
\* the state of the generic scanner page
uvars == <<widgets, generic_filters, last_click, sent, generic_scanner_results_df>>

\* the state outside the scanners
ovars == <<dvars, bvars, uvars>>

vars == <<company, price_history, scanner, pc, candidate_map, price_df,
          todo, scanned, passing_stocks, result, h_scanners, h_group, h_info, h_log,
          ovars>>

\* initialize_database_schema is not running
DbIdle ==
    /\ exchange_table = <<>>
    /\ db = [open |-> FALSE, new |-> <<>>, flushed |-> 0]
    /\ init_pc = "off"
    /\ init_ok = TRUE
    /\ init_calls = 0
    /\ exchange_first = <<"none">>

\* the backtest page is not open
BacktestIdle ==
    /\ bt_data = <<>>
    /\ bt_range = <<0, 0>>
    /\ bt_pc = "off"
    /\ current_date = 0
    /\ daily_data = <<>>
    /\ signals = <<>>
    /\ results = <<>>
    /\ equity = <<>>

\* the scanner page is not open
PageIdle ==
    /\ widgets = <<>>
    /\ generic_filters = <<>>
    /\ last_click = "off"
    /\ sent = <<>>
    /\ generic_scanner_results_df = "empty"

\* nothing outside the scanners is running
OtherIdle == DbIdle /\ BacktestIdle /\ PageIdle

-----------------------------------------------------------------------------
(* Bounds of the model *)

NumCompanies == 2
MaxBars == 3
MaxCalls == 2
BaseLen == 204

-----------------------------------------------------------------------------
(* Values *)

Null == <<>>
IsNull(v) == v = Null
NotNull(v) == v # Null

Abs(n) == IF n < 0 THEN -n ELSE n

RECURSIVE GCD(_, _)
GCD(a, b) == IF b = 0 THEN a ELSE GCD(b, a % b)

\* the rational n/d in lowest terms, d # 0
Rat(n, d) ==
    LET g == GCD(Abs(n), Abs(d))
        s == IF d < 0 THEN -1 ELSE 1
    IN  <<(s * n) \div g, (s * d) \div g>>

N(n) == <<n, 1>>

RAdd(a, b) == Rat(a[1] * b[2] + b[1] * a[2], a[2] * b[2])
RMul(a, b) == Rat(a[1] * b[1], a[2] * b[2])
RDiv(a, b) == Rat(a[1] * b[2], a[2] * b[1])

\* comparisons as Python / SQL make them: anything against None/NaN/NULL is false
Lt(a, b) == NotNull(a) /\ NotNull(b) /\ a[1] * b[2] < b[1] * a[2]
Le(a, b) == NotNull(a) /\ NotNull(b) /\ a[1] * b[2] <= b[1] * a[2]
Gt(a, b) == Lt(b, a)
Ge(a, b) == Le(b, a)
Eq(a, b) == NotNull(a) /\ NotNull(b) /\ a[1] * b[2] = b[1] * a[2]

\* Series.round(2) of a rational: to the nearest hundredth, halves to even
Round2(r) ==
    LET q == (r[1] * 100) \div r[2]
        rem == (r[1] * 100) % r[2]
    IN  IF 2 * rem < r[2] THEN Rat(q, 100)
        ELSE IF 2 * rem > r[2] THEN Rat(q + 1, 100)
        ELSE IF q % 2 = 0 THEN Rat(q, 100) ELSE Rat(q + 1, 100)

RECURSIVE SeqSum(_, _, _)
\* s[lo] + ... + s[hi] of a sequence of rationals
SeqSum(s, lo, hi) ==
    IF lo > hi THEN N(0)
    ELSE IF lo = hi THEN s[lo]
    ELSE LET mid == (lo + hi) \div 2
         IN  RAdd(SeqSum(s, lo, mid), SeqSum(s, mid + 1, hi))

RECURSIVE SeqProd(_, _, _)
\* s[lo] * ... * s[hi] of a sequence of rationals
SeqProd(s, lo, hi) ==
    IF lo > hi THEN N(1)
    ELSE IF lo = hi THEN s[lo]
    ELSE LET mid == (lo + hi) \div 2
         IN  RMul(SeqProd(s, lo, mid), SeqProd(s, mid + 1, hi))

RECURSIVE SeqMax(_, _, _)
\* the largest of s[lo], ..., s[hi], lo <= hi
SeqMax(s, lo, hi) ==
    IF lo = hi THEN s[lo]
    ELSE LET mid == (lo + hi) \div 2
             a == SeqMax(s, lo, mid)
             b == SeqMax(s, mid + 1, hi)
         IN  IF a[1] * b[2] >= b[1] * a[2] THEN a ELSE b

RECURSIVE SeqMin(_, _, _)
\* the smallest of s[lo], ..., s[hi], lo <= hi
SeqMin(s, lo, hi) ==
    IF lo = hi THEN s[lo]
    ELSE LET mid == (lo + hi) \div 2
             a == SeqMin(s, lo, mid)
             b == SeqMin(s, mid + 1, hi)
         IN  IF a[1] * b[2] <= b[1] * a[2] THEN a ELSE b

Range(s) == {s[i] : i \in 1..Len(s)}
MinOf(S) == CHOOSE x \in S : \A y \in S : x <= y

-----------------------------------------------------------------------------
(* Python dicts: a sequence of <<key, value>> pairs in insertion order *)

DictKeys(d) == [i \in 1..Len(d) |-> d[i][1]]
DictHas(d, k) == \E i \in 1..Len(d) : d[i][1] = k
DictGet(d, k) == IF DictHas(d, k) THEN d[CHOOSE i \in 1..Len(d) : d[i][1] = k][2] ELSE Null
DictDel(d, k) == SelectSeq(d, LAMBDA p : p[1] # k)
DictSet(d, k, v) ==
    IF DictHas(d, k)
    THEN [i \in 1..Len(d) |-> IF d[i][1] = k THEN <<k, v>> ELSE d[i]]
    ELSE Append(d, <<k, v>>)

RECURSIVE DictDelIfPresent(_, _)
\* for key in ks: if key in d: del d[key]
DictDelIfPresent(d, ks) ==
    IF ks = <<>> THEN d ELSE DictDelIfPresent(DictDel(d, Head(ks)), Tail(ks))

\* self.params.get(name, default)
ParamGet(params, name, default) ==
    IF name \in DOMAIN params THEN params[name] ELSE default

-----------------------------------------------------------------------------
(* The store: Exchange, Company and PriceHistory tables *)

\* Exchange.exchange_code -> Exchange.country_code (rows of the static seed)
ExchangeCountry == [NYSE |-> "us", NMS |-> "us", TOR |-> "ca"]

CompanyIds == 1..NumCompanies

\* the current day, as a day number; bar dates are day numbers too
Today == 1000

\* object_as_dict(c): the row's columns as a dict
object_as_dict(c) ==
    << <<"id", N(c.id)>>, <<"symbol", N(c.id)>>, <<"longname", N(c.id)>>,
       <<"sector", N(1)>>, <<"industry", N(1)>>,
       <<"isactive", IF c.isactive THEN N(1) ELSE N(0)>>,
       <<"marketcap", c.marketcap>>, <<"trailingpe", c.trailingpe>>,
       <<"trailingpegratio", c.trailingpegratio>>,
       <<"earningsquarterlygrowth", c.earningsquarterlygrowth>>,
       <<"revenuegrowth", c.revenuegrowth>>,
       <<"dividendyield", c.dividendyield>>, <<"payoutratio", c.payoutratio>>,
       <<"pricetobook", c.pricetobook>>, <<"debttoequity", c.debttoequity>>,
       <<"bookvalue", c.bookvalue>>, <<"sectorkey", c.sectorkey>>,
       <<"longbusinesssummary", N(c.id)>> >>

\* Company.isactive == True, Company.exchange.in_(exchanges of the market)
InMarket(c, market) ==
    /\ c.isactive
    /\ c.exchange \in {e \in DOMAIN ExchangeCountry : ExchangeCountry[e] = market}

\* BaseScanner.run_scan, candidate_query is None: the default candidate query
DefaultQuery(c, params) ==
    /\ InMarket(c, ParamGet(params, "market", "us"))
    /\ Gt(c.marketcap, N(ParamGet(params, "min_market_cap", 1000000000)))

\* GARPScanner.run_scan: the candidate query with all fundamental filters
GARPQuery(c, params) ==
    /\ InMarket(c, ParamGet(params, "market", "us"))
    /\ Gt(c.marketcap, N(ParamGet(params, "min_market_cap", 1000000000)))
    /\ Gt(c.trailingpe, N(0))
    /\ Lt(c.trailingpe, N(ParamGet(params, "max_pe_ratio", 25)))
    /\ Gt(c.trailingpegratio, N(0))
    /\ Lt(c.trailingpegratio, ParamGet(params, "max_peg_ratio", Rat(3, 2)))
    /\ Gt(c.earningsquarterlygrowth, Rat(ParamGet(params, "min_eps_growth_pct", 10), 100))
    /\ Gt(c.revenuegrowth, Rat(ParamGet(params, "min_revenue_growth_pct", 10), 100))

\* HighDividendYieldScanner.run_scan: the candidate query
HighDividendYieldQuery(c, params) ==
    /\ InMarket(c, ParamGet(params, "market", "us"))
    /\ Gt(c.marketcap, N(ParamGet(params, "min_market_cap", 1000000000)))
    /\ Gt(c.dividendyield, N(ParamGet(params, "min_dividend_yield_pct", 3)))
    /\ Gt(c.payoutratio, N(0))
    /\ Lt(c.payoutratio, N(ParamGet(params, "max_payout_ratio_pct", 80)))

\* UndervaluedPbScanner.run_scan: the candidate query
UndervaluedPbQuery(c, params) ==
    /\ InMarket(c, ParamGet(params, "market", "us"))
    /\ Gt(c.marketcap, N(ParamGet(params, "min_market_cap", 500000000)))
    /\ NotNull(c.bookvalue)
    /\ NotNull(c.pricetobook)
    /\ Gt(c.pricetobook, ParamGet(params, "min_pb_ratio", Rat(1, 10)))
    /\ Gt(c.pricetobook, N(0))
    /\ Lt(c.pricetobook, ParamGet(params, "max_pb_ratio", Rat(3, 2)))
    /\ Gt(c.trailingpe, N(0))
    /\ NotNull(c.debttoequity)
    /\ Lt(c.debttoequity, N(ParamGet(params, "max_debt_to_equity", 2)))

-----------------------------------------------------------------------------
(* BaseScanner._get_price_history *)

\* df['split_coefficient'].replace(0, 1)
ReplaceZero(k) == IF Eq(k, N(0)) THEN N(1) ELSE k

RECURSIVE ReverseCumSum(_, _, _)
\* the running sums of s[lo..hi] taken from the end: entry k is s[k] + ... + s[hi]
ReverseCumSum(s, lo, hi) ==
    IF lo > hi THEN <<>>
    ELSE IF lo = hi THEN <<s[lo]>>
    ELSE LET mid == (lo + hi) \div 2
             left == ReverseCumSum(s, lo, mid)
             right == ReverseCumSum(s, mid + 1, hi)
         IN  [k \in 1..Len(left) |-> RAdd(left[k], right[1])] \o right

RECURSIVE ReverseCumProd(_, _, _)
\* x.iloc[::-1].cumprod().iloc[::-1] on s[lo..hi]: entry k is s[k] * ... * s[hi]
ReverseCumProd(s, lo, hi) ==
    IF lo > hi THEN <<>>
    ELSE IF lo = hi THEN <<s[lo]>>
    ELSE LET mid == (lo + hi) \div 2
             left == ReverseCumProd(s, lo, mid)
             right == ReverseCumProd(s, mid + 1, hi)
         IN  [k \in 1..Len(left) |-> RMul(left[k], right[1])] \o right

\* a running sum of the coefficients where the code has the running product
CumSplit_Sum(bars) ==
    ReverseCumSum([j \in 1..Len(bars) |-> ReplaceZero(bars[j].split_coefficient)], 1, Len(bars))

\* df['cum_split']: at each bar the product of its coefficient and of the
\* coefficients of every later bar of the same company
CumSplit(bars) ==
    ReverseCumProd([j \in 1..Len(bars) |-> ReplaceZero(bars[j].split_coefficient)], 1, Len(bars))

\* df[col] = df[col] / df['cum_split'] for col in open, high, low, close
AdjustBars(bars) ==
    LET cum_split == CumSplit(bars)
    IN  [i \in 1..Len(bars) |->
            [bars[i] EXCEPT !.split_coefficient = ReplaceZero(@),
                            !.open = RDiv(@, cum_split[i]), !.high = RDiv(@, cum_split[i]),
                            !.low = RDiv(@, cum_split[i]), !.close = RDiv(@, cum_split[i])]]

\* the bars of one company with PriceHistory.date >= start_date, adjusted
PriceRows(hist, days_back) ==
    AdjustBars(SelectSeq(hist, LAMBDA b : b.date >= Today - days_back))

RECURSIVE SplitOfAll(_, _, _)
\* the product of the split coefficients of every bar in the window of the
\* companies ids
SplitOfAll(hist, ids, days_back) ==
    IF ids = {} THEN N(1)
    ELSE LET id == CHOOSE x \in ids : TRUE
             bars == SelectSeq(hist[id], LAMBDA b : b.date >= Today - days_back)
         IN  RMul(IF bars = <<>> THEN N(1) ELSE CumSplit(bars)[1],
                  SplitOfAll(hist, ids \ {id}, days_back))

\* the frame with cum_split taken over the whole sorted frame, without
\* groupby('company_id'): the bars of the companies sorted after a company
\* count as its later bars
GetPriceHistory_NoGroupBy(hist, company_ids, days_back) ==
    LET with_rows == {id \in company_ids :
                         \E i \in 1..Len(hist[id]) : hist[id][i].date >= Today - days_back}
        later(id) == SplitOfAll(hist, {x \in with_rows : x > id}, days_back)
    IN  [id \in with_rows |->
            [i \in 1..Len(PriceRows(hist[id], days_back)) |->
                [PriceRows(hist[id], days_back)[i] EXCEPT
                    !.open = RDiv(@, later(id)), !.high = RDiv(@, later(id)),
                    !.low = RDiv(@, later(id)), !.close = RDiv(@, later(id))]]]

\* the frame as its groups: company id -> bars, for the ids that have rows
GetPriceHistory(hist, company_ids, days_back) ==
    LET with_rows == {id \in company_ids :
                         \E i \in 1..Len(hist[id]) : hist[id][i].date >= Today - days_back}
    IN  [id \in with_rows |-> PriceRows(hist[id], days_back)]

-----------------------------------------------------------------------------
(* BaseScanner.run_scan, step 4: the liquidity filter *)

\* groupby('company_id')['volume'].rolling(window, min_periods=1).mean() at bar i
RollingAvgVolume(volume, window, i) ==
    LET lo == IF i - window + 1 < 1 THEN 1 ELSE i - window + 1
    IN  RDiv(SeqSum(volume, lo, i), N(i - lo + 1))

\* price_df['avg_volume'] = avg_volume, on the bars of one company
WithAvgVolume(bars, params) ==
    LET volume == [j \in 1..Len(bars) |-> bars[j].volume]
        window == ParamGet(params, "volume_lookback_days", 50)
    IN  [i \in 1..Len(bars) |->
            [date |-> bars[i].date, open |-> bars[i].open, high |-> bars[i].high,
             low |-> bars[i].low, close |-> bars[i].close, adjclose |-> bars[i].adjclose,
             volume |-> bars[i].volume, split_coefficient |-> bars[i].split_coefficient,
             avg_volume |-> RollingAvgVolume(volume, window, i)]]

\* groupby('company_id')['avg_volume'].last()
LatestAvgVolume(bars) == bars[Len(bars)].avg_volume

\* the filter with > where the code has >=
PassesVolume_Strict(bars, params) ==
    Gt(LatestAvgVolume(bars), N(ParamGet(params, "min_avg_volume", 100000)))

\* latest_avg_volume >= min_avg_volume
PassesVolume(bars, params) ==
    Ge(LatestAvgVolume(bars), N(ParamGet(params, "min_avg_volume", 100000)))


-----------------------------------------------------------------------------
(* Indicator layer (talib), on a sequence of rationals, index 1 = oldest *)

\* talib.SMA(close, timeperiod)[i]: NaN before the period is filled
SMA(close, period, i) ==
    IF i < period \/ i > Len(close) THEN Null
    ELSE RDiv(SeqSum(close, i - period + 1, i), N(period))

RECURSIVE EMA(_, _, _)
\* talib.EMA(close, timeperiod)[i]: seeded with the SMA of the first period
\* values, then smoothed with k = 2 / (period + 1)
EMA(close, period, i) ==
    IF i < period \/ i > Len(close) THEN Null
    ELSE IF i = period THEN SMA(close, period, i)
    ELSE LET k == Rat(2, period + 1)
             Smooth(prev) == RAdd(RMul(RAdd(close[i], RMul(N(-1), prev)), k), prev)
         IN  CHOOSE v \in {Smooth(prev) : prev \in {EMA(close, period, i - 1)}} : TRUE

Gain(close, i) == IF Gt(close[i], close[i - 1]) THEN RAdd(close[i], RMul(N(-1), close[i - 1])) ELSE N(0)
Loss(close, i) == IF Lt(close[i], close[i - 1]) THEN RAdd(close[i - 1], RMul(N(-1), close[i])) ELSE N(0)

RECURSIVE AvgMove(_, _, _, _)
\* Wilder's smoothed average gain (up = TRUE) or loss at bar i, i >= period + 1
AvgMove(close, period, i, up) ==
    LET move(j) == IF up THEN Gain(close, j) ELSE Loss(close, j)
        first == [j \in 1..period |-> move(j + 1)]
        Smooth(prev) == RDiv(RAdd(RMul(prev, N(period - 1)), move(i)), N(period))
    IN  IF i = period + 1 THEN RDiv(SeqSum(first, 1, period), N(period))
        ELSE IF period = 1 THEN move(i)   \* (prev * 0 + move) / 1
        ELSE CHOOSE v \in {Smooth(prev) : prev \in {AvgMove(close, period, i - 1, up)}} : TRUE

\* talib.RSI(close, timeperiod)[i]
RSI(close, period, i) ==
    IF i < period + 1 \/ i > Len(close) THEN Null
    ELSE LET g == AvgMove(close, period, i, TRUE)
             l == AvgMove(close, period, i, FALSE)
         IN  IF Eq(RAdd(g, l), N(0)) THEN N(0)
             ELSE RMul(N(100), RDiv(g, RAdd(g, l)))

RECURSIVE EMAFrom(_, _, _, _)
\* the EMA of period that talib.MACD runs from bar start: seeded with the SMA
\* of the period values that end at bar start
EMAFrom(close, period, start, i) ==
    IF i < start \/ i > Len(close) THEN Null
    ELSE IF i = start THEN SMA(close, period, start)
    ELSE LET k == Rat(2, period + 1)
             Smooth(prev) == RAdd(RMul(RAdd(close[i], RMul(N(-1), prev)), k), prev)
         IN  CHOOSE v \in {Smooth(prev) : prev \in {EMAFrom(close, period, start, i - 1)}} : TRUE

\* fast EMA minus slow EMA at bar i >= slow, fast <= slow
MACDLine(close, fast, slow, i) ==
    RAdd(EMAFrom(close, fast, slow, i), RMul(N(-1), EMAFrom(close, slow, slow, i)))

\* talib.MACD(close, fast, slow, signal)[0][i]: NaN before bar slow + signal - 1
MACD(close, fast, slow, signal, i) ==
    IF i < slow + signal - 1 \/ i > Len(close) THEN Null ELSE MACDLine(close, fast, slow, i)

\* talib.MACD(close, fast, slow, signal)[1][i]: the EMA of the MACD line
MACDSignal(close, fast, slow, signal, i) ==
    IF i < slow + signal - 1 \/ i > Len(close) THEN Null
    ELSE EMA([j \in 1..(Len(close) - slow + 1) |-> MACDLine(close, fast, slow, slow - 1 + j)],
             signal, i - slow + 1)

\* the raw stochastic %K at bar i >= fastk: 0 on a window without range
FastKOf(hh, ll, c) ==
    IF Eq(hh, ll) THEN N(0)
    ELSE RMul(N(100), RDiv(RAdd(c, RMul(N(-1), ll)), RAdd(hh, RMul(N(-1), ll))))

FastK(high, low, close, fastk, i) ==
    FastKOf(SeqMax(high, i - fastk + 1, i), SeqMin(low, i - fastk + 1, i), close[i])

\* the SMA over slowk_p bars of the raw %K, at bar i >= fastk + slowk_p - 1
SlowKLine(high, low, close, fastk, slowk_p, i) ==
    RDiv(SeqSum([j \in 1..i |-> IF j < fastk THEN N(0) ELSE FastK(high, low, close, fastk, j)],
                i - slowk_p + 1, i), N(slowk_p))

\* talib.STOCH(...)[0][i]: NaN before bar fastk + slowk_p + slowd_p - 2
STOCHK(high, low, close, fastk, slowk_p, slowd_p, i) ==
    IF i < fastk + slowk_p + slowd_p - 2 \/ i > Len(close) THEN Null
    ELSE SlowKLine(high, low, close, fastk, slowk_p, i)

\* talib.STOCH(...)[1][i]: the SMA over slowd_p bars of the slow %K
STOCHD(high, low, close, fastk, slowk_p, slowd_p, i) ==
    IF i < fastk + slowk_p + slowd_p - 2 \/ i > Len(close) THEN Null
    ELSE RDiv(SeqSum([j \in 1..i |-> IF j < fastk + slowk_p - 1 THEN N(0)
                                     ELSE SlowKLine(high, low, close, fastk, slowk_p, j)],
                     i - slowd_p + 1, i), N(slowd_p))

\* the variance of the last period closes at bar i >= period
VarianceOf(mean_sq, mean) == RAdd(mean_sq, RMul(N(-1), RMul(mean, mean)))

Variance(close, period, i) ==
    VarianceOf(RDiv(SeqSum([j \in 1..i |-> RMul(close[j], close[j])], i - period + 1, i),
                    N(period)),
               SMA(close, period, i))

\* talib.BBANDS(close, period, nbdevup, nbdevdn) at bar i: "nan" before the
\* period is filled, else whether price is above the upper band (upper =
\* TRUE) or below the lower band, the band being dev standard deviations
\* from the SMA: d > dev * sqrt(variance) iff d > 0 and d * d > dev * dev * variance
BandExceeded(d, dev, variance) ==
    IF Gt(d, N(0)) /\ Gt(RMul(d, d), RMul(RMul(dev, dev), variance)) THEN "true" ELSE "false"

BBandsBreak(close, period, dev, i, upper) ==
    IF i < period \/ i > Len(close) THEN "nan"
    ELSE BandExceeded(IF upper THEN RAdd(close[i], RMul(N(-1), SMA(close, period, i)))
                      ELSE RAdd(SMA(close, period, i), RMul(N(-1), close[i])),
                      dev, Variance(close, period, i))

Closes(group) == [i \in 1..Len(group) |-> group[i].close]

-----------------------------------------------------------------------------
(* scan_company of the scanners.  Each returns [out, info]: out is "match" *)
(* (the dict info is returned), "none" or "raise"; info is the snapshot    *)
(* dict as the call leaves it.                                             *)

Outcome(out, info) == [out |-> out, info |-> info]

\* GARPScanner / HighDividendYieldScanner / UndervaluedPbScanner.scan_company:
\* for key in ['id', 'isactive']: del company_info[key]
DelIdIsActive(info) ==
    IF ~DictHas(info, "id") THEN Outcome("raise", info)
    ELSE IF ~DictHas(DictDel(info, "id"), "isactive")
         THEN Outcome("raise", DictDel(info, "id"))
         ELSE Outcome("match", DictDel(DictDel(info, "id"), "isactive"))

GARPScan(params, group, info) == DelIdIsActive(info)

\* HighDividendYieldScanner.scan_company
HighDividendYieldScan(params, group, info) == DelIdIsActive(info)

\* UndervaluedPbScanner.scan_company
UndervaluedPbScan(params, group, info) == DelIdIsActive(info)

\* the crossover test with the comparison at the examined bar not strict
FirstCross_NonStrict(close, lookback, golden) ==
    LET n == Len(close)
        s50(i) == SMA(close, 50, i)
        s200(i) == SMA(close, 200, i)
        Skipped(i) == n < i + 1 \/ IsNull(s50(n - i + 1)) \/ IsNull(s200(n - i + 1))
        Cross(i) ==
            IF golden
            THEN Ge(s50(n - i + 1), s200(n - i + 1)) /\ Le(s50(n - i), s200(n - i))
            ELSE Le(s50(n - i + 1), s200(n - i + 1)) /\ Ge(s50(n - i), s200(n - i))
        hits == {i \in 1..(lookback + 1) : ~Skipped(i) /\ Cross(i)}
    IN  IF hits = {} THEN 0 ELSE MinOf(hits)

\* the found crossover: the first offset i in range(1, lookback + 2) that is
\* not skipped by the NaN guard and at which the cross test holds; 0 if none
FirstCross(close, lookback, golden) ==
    LET n == Len(close)
        s50(i) == SMA(close, 50, i)
        s200(i) == SMA(close, 200, i)
        Skipped(i) == n < i + 1 \/ IsNull(s50(n - i + 1)) \/ IsNull(s200(n - i + 1))
        Cross(i) ==
            IF golden
            THEN Gt(s50(n - i + 1), s200(n - i + 1)) /\ Le(s50(n - i), s200(n - i))
            ELSE Lt(s50(n - i + 1), s200(n - i + 1)) /\ Ge(s50(n - i), s200(n - i))
        hits == {i \in 1..(lookback + 1) : ~Skipped(i) /\ Cross(i)}
    IN  IF hits = {} THEN 0 ELSE MinOf(hits)

\* the result dict with the date of the latest bar as crossover_date
CrossRecord_LatestDate(group, info, i) ==
    LET close == Closes(group)
        n == Len(group)
        cleaned == DictDelIfPresent(info, <<"id", "isactive", "longbusinesssummary">>)
    IN  DictSet(DictSet(DictSet(cleaned, "sma50", SMA(close, 50, n)),
                        "sma200", SMA(close, 200, n)),
                "crossover_date", N(group[n].date))

\* the result dict of both crossover scanners
CrossRecord(group, info, i) ==
    LET close == Closes(group)
        n == Len(group)
        cleaned == DictDelIfPresent(info, <<"id", "isactive", "longbusinesssummary">>)
    IN  DictSet(DictSet(DictSet(cleaned, "sma50", SMA(close, 50, n)),
                        "sma200", SMA(close, 200, n)),
                "crossover_date", N(group[n - i + 1].date))

\* the scanner without "if len(group) < 200 + crossover_lookback_days: return None"
GoldenCrossScan_NoMinimum(params, group, info) ==
    LET lookback == ParamGet(params, "crossover_lookback_days", 5)
        ext == ParamGet(params, "max_price_extension_pct", 5)
        close == Closes(group)
        n == Len(group)
        i == FirstCross(close, lookback, TRUE)
    IN  IF i = 0 THEN Outcome("none", info)
        ELSE IF Lt(close[n], RMul(SMA(close, 50, n), Rat(100 + ext, 100)))
             THEN Outcome("match", CrossRecord(group, info, i))
             ELSE Outcome("none", info)

\* GoldenCrossScanner.scan_company
GoldenCrossScan(params, group, info) ==
    LET lookback == ParamGet(params, "crossover_lookback_days", 5)
        ext == ParamGet(params, "max_price_extension_pct", 5)
        close == Closes(group)
        n == Len(group)
    IN  IF n < 200 + lookback THEN Outcome("none", info)
        ELSE LET i == FirstCross(close, lookback, TRUE)
             IN  IF i = 0 THEN Outcome("none", info)
                 ELSE IF Lt(close[n], RMul(SMA(close, 50, n), Rat(100 + ext, 100)))
                      THEN Outcome("match", CrossRecord(group, info, i))
                      ELSE Outcome("none", info)

\* DeathCrossScanner.scan_company
DeathCrossScan(params, group, info) ==
    LET lookback == ParamGet(params, "crossover_lookback_days", 5)
        close == Closes(group)
        n == Len(group)
    IN  IF n < 200 + lookback THEN Outcome("none", info)
        ELSE LET i == FirstCross(close, lookback, FALSE)
             IN  IF i = 0 THEN Outcome("none", info)
                 ELSE IF Lt(close[n], SMA(close, 50, n))
                      THEN Outcome("match", CrossRecord(group, info, i))
                      ELSE Outcome("none", info)

\* NewHighsScanner.scan_company
NewHighsScan(params, group, info) ==
    LET lookback == ParamGet(params, "setup_lookback_days", 2)
        n == Len(group)
        high == [j \in 1..n |-> group[j].high]
        Hit(i) == /\ n >= 252 + i
                  /\ Ge(high[n - i + 1], SeqMax(high, n - (252 + i) + 1, n - i))
        hits == {i \in 1..lookback : Hit(i)}
    IN  IF n < 252 + lookback \/ hits = {} THEN Outcome("none", info)
        ELSE LET i == MinOf(hits)
                 current_price == group[n - i + 1].close
                 current_high == high[n - i + 1]
                 cleaned == DictDelIfPresent(info, <<"id", "isactive", "longbusinesssummary">>)
                 pct == IF Gt(current_high, N(0))
                        THEN RMul(RDiv(current_price, current_high), N(100)) ELSE N(0)
             IN  Outcome("match",
                         DictSet(DictSet(DictSet(DictSet(cleaned, "currentprice", current_price),
                                                 "fiftytwoweekhigh", current_high),
                                         "pct_of_high", pct),
                                 "setup_date", N(group[n - i + 1].date)))

\* NewLowsScanner.scan_company
NewLowsScan(params, group, info) ==
    LET lookback == ParamGet(params, "setup_lookback_days", 2)
        n == Len(group)
        low == [j \in 1..n |-> group[j].low]
        Hit(i) == /\ n >= 252 + i
                  /\ Le(low[n - i + 1], SeqMin(low, n - (252 + i) + 1, n - i))
        hits == {i \in 1..lookback : Hit(i)}
    IN  IF n < 252 + lookback \/ hits = {} THEN Outcome("none", info)
        ELSE LET i == MinOf(hits)
                 current_price == group[n - i + 1].close
                 current_low == low[n - i + 1]
                 cleaned == DictDelIfPresent(info, <<"id", "isactive", "longbusinesssummary">>)
                 pct == IF Gt(current_low, N(0))
                        THEN RMul(RAdd(RDiv(current_price, current_low), N(-1)), N(100))
                        ELSE N(0)
             IN  Outcome("match",
                         DictSet(DictSet(DictSet(DictSet(cleaned, "currentprice", current_price),
                                                 "fiftytwoweeklow", current_low),
                                         "pct_from_low", pct),
                                 "setup_date", N(group[n - i + 1].date)))

\* SellingClimaxScanner.scan_company
SellingClimaxScan(params, group, info) ==
    LET new_low_period == ParamGet(params, "new_low_period", 20)
        volume_spike_multiplier == ParamGet(params, "volume_spike_multiplier", Rat(5, 2))
        close_reversal_pct == N(ParamGet(params, "close_reversal_pct", 50))
        lookback == ParamGet(params, "setup_lookback_days", 2)
        n == Len(group)
        low == [j \in 1..n |-> group[j].low]
        volume == [j \in 1..n |-> group[j].volume]
        avg_volume_20(i) == SMA(volume, 20, n - i + 1)
        bar_range(i) == RAdd(group[n - i + 1].high, RMul(N(-1), low[n - i + 1]))
        close_position(i) ==
            RMul(RDiv(RAdd(group[n - i + 1].close, RMul(N(-1), low[n - i + 1])), bar_range(i)),
                 N(100))
        Hit(i) == /\ ~(n < new_low_period + i \/ IsNull(avg_volume_20(i)))
                  /\ ~Eq(bar_range(i), N(0))
                  /\ Lt(low[n - i + 1], SeqMin(low, n - (new_low_period + i) + 1, n - i))
                  /\ Gt(volume[n - i + 1], RMul(avg_volume_20(i), volume_spike_multiplier))
                  /\ Gt(close_position(i), close_reversal_pct)
        hits == {i \in 1..lookback : Hit(i)}
    IN  IF n < new_low_period + 1 + lookback \/ hits = {} THEN Outcome("none", info)
        ELSE LET i == MinOf(hits)
                 cleaned == DictDelIfPresent(info, <<"id", "isactive", "longbusinesssummary">>)
             IN  Outcome("match",
                         DictSet(DictSet(cleaned, "close_pos_in_range", close_position(i)),
                                 "climax_date", N(group[n - i + 1].date)))

\* LorenzRegimeScanner.scan_company
LorenzRegimeScan(params, group, info) ==
    LET lookback == ParamGet(params, "lookback_period", 50)
        threshold == ParamGet(params, "crossover_threshold", Rat(1, 10))
        close == Closes(group)
        n == Len(group)
        rolling_min(i) == IF i < lookback THEN Null ELSE SeqMin(close, i - lookback + 1, i)
        rolling_max(i) == IF i < lookback THEN Null ELSE SeqMax(close, i - lookback + 1, i)
        rolling_range(i) ==
            IF i < lookback THEN Null ELSE RAdd(rolling_max(i), RMul(N(-1), rolling_min(i)))
        state_x(i) ==
            IF Gt(rolling_range(i), N(0))
            THEN RAdd(RMul(N(2), RDiv(RAdd(close[i], RMul(N(-1), rolling_min(i))),
                                      rolling_range(i))),
                      N(-1))
            ELSE N(0)
        lorenz_regime(i) ==
            IF Gt(state_x(i), threshold) THEN 1
            ELSE IF Lt(state_x(i), RMul(N(-1), threshold)) THEN -1 ELSE 0
    IN  IF n < 201 \/ n < lookback + 2 THEN Outcome("none", info)
        ELSE IF IsNull(SMA(close, 200, n)) THEN Outcome("none", info)
        ELSE IF /\ lorenz_regime(n) = 1 /\ lorenz_regime(n - 1) = 0
                /\ Gt(close[n], SMA(close, 200, n))
        THEN Outcome("match",
                     DictSet(DictDelIfPresent(info, <<"id", "isactive", "longbusinesssummary",
                                                      "bookvalue">>),
                             "lorenz_regime", N(1)))
        ELSE Outcome("none", info)

\* BbSqueezeBreakoutScanner.scan_company on a frame of fewer than 200 bars:
\* the 200-bar average is NaN at every offset, so no offset is examined
BbSqueezeBreakoutScanShort(params, group, info) ==
    LET squeeze_period == ParamGet(params, "squeeze_period", 120)
        breakout_lookback_days == ParamGet(params, "breakout_lookback_days", 2)
        close == Closes(group)
        n == Len(group)
        examined == {i \in 1..breakout_lookback_days : NotNull(SMA(close, 200, n - i + 1))}
    IN  CASE n < squeeze_period -> Outcome("none", info)
          [] n >= squeeze_period /\ n < breakout_lookback_days + 1 -> Outcome("none", info)
          [] n >= squeeze_period /\ n >= breakout_lookback_days + 1 /\ examined = {} ->
                Outcome("none", info)

-----------------------------------------------------------------------------
(* GenericScreener.  A Filter Specification is [name, op, value]: name and *)
(* op are strings, NoneStr when the key is missing or None; value is a     *)
(* tagged tuple: <<"missing">>, <<"null">>, <<"num", rational>>,           *)
(* <<"list", sequence>> or <<"map", record of sub-parameters>>.            *)

NoneStr == "<None>"
VMissing == <<"missing">>
VNull == <<"null">>
VNum(n) == <<"num", N(n)>>
VList(l) == <<"list", l>>
VMap(m) == <<"map", m>>

\* GenericScreener.FILTER_MAP: name -> source, type, model attribute
FILTER_MAP ==
    [marketcap     |-> [source |-> "db", type |-> "numeric", attr |-> "marketcap"],
     dividendyield |-> [source |-> "db", type |-> "percentage", attr |-> "dividendyield"],
     sector        |-> [source |-> "db", type |-> "category", attr |-> "sectorkey"],
     trailingpe    |-> [source |-> "db", type |-> "numeric", attr |-> "trailingpe"],
     sma           |-> [source |-> "tech", type |-> "numeric", attr |-> NoneStr],
     ema           |-> [source |-> "tech", type |-> "numeric", attr |-> NoneStr],
     rsi           |-> [source |-> "tech", type |-> "numeric", attr |-> NoneStr],
     macd          |-> [source |-> "tech", type |-> "crossover", attr |-> NoneStr],
     stoch         |-> [source |-> "tech", type |-> "crossover_value", attr |-> NoneStr],
     bbands        |-> [source |-> "tech", type |-> "crossover", attr |-> NoneStr],
     adx           |-> [source |-> "tech", type |-> "numeric", attr |-> NoneStr]]

\* a name that is no key of FILTER_MAP handled as an indicator filter
FilterSource_UnknownAsTech(f) ==
    IF f.name \in DOMAIN FILTER_MAP THEN FILTER_MAP[f.name].source ELSE "tech"

\* self.FILTER_MAP.get(f.get('name'), {}).get('source')
FilterSource(f) == IF f.name \in DOMAIN FILTER_MAP THEN FILTER_MAP[f.name].source ELSE NoneStr

\* [f for f in filters if ... == source]
FiltersOf(filters, source) == SelectSeq(filters, LAMBDA f : FilterSource(f) = source)

\* if not all([filter_name, filter_op, filter_value is not None]): continue
DbFilterSkipped(f) ==
    f.name = NoneStr \/ f.op = NoneStr \/ f.value[1] \in {"missing", "null"}

\* filter_value = filter_value / 100.0 raises TypeError on a list or a dict
DbFilterRaises(f) ==
    /\ ~DbFilterSkipped(f)
    /\ FILTER_MAP[f.name].type = "percentage"
    /\ f.value[1] # "num"

\* the conditions one database filter appends to active_filters, evaluated
\* on a Company row: model_attr != None, then the comparison of its operator
DbFilterHolds(c, f) ==
    LET info == FILTER_MAP[f.name]
        attr == c[info.attr]
        value == IF info.type = "percentage" THEN RDiv(f.value[2], N(100)) ELSE f.value[2]
    IN  /\ NotNull(attr)
        /\ CASE f.op = ">"  -> Gt(attr, value)
             [] f.op = ">=" -> Ge(attr, value)
             [] f.op = "<"  -> Lt(attr, value)
             [] f.op = "<=" -> Le(attr, value)
             [] f.op = "==" -> Eq(attr, value)
             [] f.op = "in" -> IF f.value[1] = "list" /\ f.value[2] # <<>>
                               THEN attr \in Range(f.value[2]) ELSE TRUE
             [] OTHER -> TRUE

\* GenericScreener._get_base_query raises while building the query
BaseQueryRaises(params) ==
    \E i \in 1..Len(FiltersOf(ParamGet(params, "filters", <<>>), "db")) :
        DbFilterRaises(FiltersOf(ParamGet(params, "filters", <<>>), "db")[i])

\* GenericScreener._get_base_query: the candidate query
GenericQuery(c, params) ==
    LET db_filters == FiltersOf(ParamGet(params, "filters", <<>>), "db")
    IN  /\ InMarket(c, ParamGet(params, "market", "us"))
        /\ \A i \in 1..Len(db_filters) :
               DbFilterSkipped(db_filters[i]) \/ DbFilterHolds(c, db_filters[i])

\* eval(f"a {op} b"): "true", "false", or "raise" when the text is no
\* Python expression (a missing operator or an operator word)
EvalCompare(a, op, b) ==
    LET T(x) == IF x THEN "true" ELSE "false"
    IN  CASE op = ">"  -> T(Gt(a, b))
          [] op = ">=" -> T(Ge(a, b))
          [] op = "<"  -> T(Lt(a, b))
          [] op = "<=" -> T(Le(a, b))
          [] op = "==" -> T(Eq(a, b))
          [] op = "!=" -> T(~Eq(a, b))
          [] op \in {NoneStr, "=", "above", "below", "cross_above", "cross_below",
                     "cross_above_upper", "cross_below_lower"} -> "raise"

\* params.get(key, default) on tech_filter.get('value', {})
SubParam(value, key, default) ==
    IF value[1] = "map" /\ key \in DOMAIN value[2] THEN value[2][key] ELSE default

\* the macd branch of _apply_tech_filter on the last two values of the MACD
\* line and of its signal line
MacdCross(macd_line, signal_line, macd_prev, signal_prev, n, op) ==
    LET T(x) == IF x THEN "true" ELSE "false"
    IN  IF n < 2 \/ IsNull(macd_line) \/ IsNull(signal_line) THEN "false"
        ELSE IF op = "cross_above"
        THEN T(Gt(macd_line, signal_line) /\ Le(macd_prev, signal_prev))
        ELSE IF op = "cross_below"
        THEN T(Lt(macd_line, signal_line) /\ Ge(macd_prev, signal_prev))
        ELSE "false"

\* the stoch branch of _apply_tech_filter on the last two values of slowk
\* and slowd and the threshold params.get('value')
StochTest(slowk, slowd, slowk_prev, slowd_prev, n, op, value) ==
    LET T(x) == IF x THEN "true" ELSE "false"
    IN  IF n < 2 \/ IsNull(slowk) \/ IsNull(slowd) THEN "false"
        ELSE IF op = "cross_above"
        THEN T(Gt(slowk, slowd) /\ Le(slowk_prev, slowd_prev))
        ELSE IF op = "cross_below"
        THEN T(Lt(slowk, slowd) /\ Ge(slowk_prev, slowd_prev))
        ELSE IF op \in {"above", "below"} /\ IsNull(value)
        THEN "raise"   \* a float compared with None: TypeError
        ELSE IF op = "above" THEN T(Gt(slowk, value))
        ELSE IF op = "below" THEN T(Lt(slowk, value))
        ELSE "false"

\* GenericScreener._apply_tech_filter: "true", "false" or "raise"
ApplyTechFilter(group, f) ==
    LET close == Closes(group)
        n == Len(group)
        price == close[n]
        high == [j \in 1..n |-> group[j].high]
        low == [j \in 1..n |-> group[j].low]
        T(x) == IF x THEN "true" ELSE "false"
    IN  IF /\ f.name \in {"sma", "ema", "rsi", "macd", "stoch", "bbands"}
           /\ f.value[1] \notin {"missing", "map"}
        THEN "raise"   \* params.get on None, a number or a list: AttributeError
        ELSE IF f.name = "sma"
        THEN LET period == SubParam(f.value, "period", 20)
             IN  IF n < period THEN "false"
                 ELSE EvalCompare(price, f.op, SMA(close, period, n))
        ELSE IF f.name = "ema"
        THEN LET period == SubParam(f.value, "period", 20)
             IN  IF n < period THEN "false"
                 ELSE EvalCompare(price, f.op, EMA(close, period, n))
        ELSE IF f.name = "rsi"
        THEN LET period == SubParam(f.value, "period", 14)
                 value == SubParam(f.value, "value", Null)
             IN  IF n < period + 1 THEN "false"
                 ELSE IF IsNull(value) THEN "false"
                 ELSE EvalCompare(RSI(close, period, n), f.op, value)
        ELSE IF f.name = "macd"
        THEN LET fast == SubParam(f.value, "fastperiod", 12)
                 slow == SubParam(f.value, "slowperiod", 26)
                 signal == SubParam(f.value, "signalperiod", 9)
             IN  MacdCross(MACD(close, fast, slow, signal, n),
                           MACDSignal(close, fast, slow, signal, n),
                           MACD(close, fast, slow, signal, n - 1),
                           MACDSignal(close, fast, slow, signal, n - 1), n, f.op)
        ELSE IF f.name = "stoch"
        THEN LET fastk == SubParam(f.value, "fastk_period", 14)
                 slowk_p == SubParam(f.value, "slowk_period", 3)
                 slowd_p == SubParam(f.value, "slowd_period", 3)
             IN  StochTest(STOCHK(high, low, close, fastk, slowk_p, slowd_p, n),
                           STOCHD(high, low, close, fastk, slowk_p, slowd_p, n),
                           STOCHK(high, low, close, fastk, slowk_p, slowd_p, n - 1),
                           STOCHD(high, low, close, fastk, slowk_p, slowd_p, n - 1),
                           n, f.op, SubParam(f.value, "value", Null))
        ELSE IF f.name = "bbands"
        THEN LET period == SubParam(f.value, "period", 20)
                 dev_up == SubParam(f.value, "nbdevup", N(2))
                 dev_dn == SubParam(f.value, "nbdevdn", N(2))
             IN  IF BBandsBreak(close, period, dev_up, n, TRUE) = "nan" THEN "false"
                 ELSE IF f.op = "cross_above_upper"
                 THEN BBandsBreak(close, period, dev_up, n, TRUE)
                 ELSE IF f.op = "cross_below_lower"
                 THEN BBandsBreak(close, period, dev_dn, n, FALSE)
                 ELSE "false"
        ELSE "false"

RECURSIVE TechFiltersPass(_, _)
\* for f in tech_filters: if not self._apply_tech_filter(group, f): return None
TechFiltersPass(group, fs) ==
    IF fs = <<>> THEN "true"
    ELSE LET r == ApplyTechFilter(group, Head(fs))
         IN  IF r = "true" THEN TechFiltersPass(group, Tail(fs)) ELSE r

\* GenericScreener.scan_company
GenericScan(params, group, info) ==
    LET r == TechFiltersPass(group, FiltersOf(ParamGet(params, "filters", <<>>), "tech"))
    IN  IF r = "raise" THEN Outcome("raise", info)
        ELSE IF r = "false" THEN Outcome("none", info)
        ELSE Outcome("match", DictDelIfPresent(info, <<"id", "isactive">>))


-----------------------------------------------------------------------------
(* The scanner classes: what each overrides.  Kind "custom" is a scanner    *)
(* written against the SDK: it overrides scan_company to accept every      *)
(* company and declares its own leading columns and sort key.              *)

\* the candidate query run_scan uses for a Company row
CandidateQuery(sc, c) ==
    CASE sc.kind = "generic" -> GenericQuery(c, sc.params)
      [] sc.kind = "garp"    -> GARPQuery(c, sc.params)
      [] sc.kind = "high_dividend_yield" -> HighDividendYieldQuery(c, sc.params)
      [] sc.kind = "undervalued_pb" -> UndervaluedPbQuery(c, sc.params)
      [] sc.kind \in {"golden_cross", "death_cross", "new_highs", "new_lows", "selling_climax",
                      "lorenz_regime", "bb_squeeze_breakout", "bullish_rsi_divergence",
                      "bearish_rsi_divergence", "wyckoff_spring", "custom"} ->
            DefaultQuery(c, sc.params)

\* the record both RSI divergence scanners return for the setup at bar d
DivergenceRecord(group, info, rsi, d) ==
    LET cleaned == DictDelIfPresent(info, <<"id", "isactive", "longbusinesssummary", "bookvalue">>)
    IN  Outcome("match", DictSet(DictSet(cleaned, "rsi", rsi), "divergence_date", N(group[d].date)))

\* BullishRsiDivergenceScanner.scan_company with the downtrend test left out
BullishRsiDivergenceScan_NoTrend(params, group, info) ==
    LET rsi_period == ParamGet(params, "rsi_period", 14)
        divergence_lookback == ParamGet(params, "divergence_lookback", 30)
        setup_lookback_days == ParamGet(params, "setup_lookback_days", 2)
        n == Len(group)
        close == Closes(group)
        low == [j \in 1..n |-> group[j].low]
        rsi(j) == RSI(close, rsi_period, j)
        Hit(i) ==
            LET d == n - i + 1
            IN  /\ n >= divergence_lookback + i
                /\ NotNull(rsi(d)) /\ NotNull(SMA(close, 200, d))
                /\ divergence_lookback > 0
                /\ LET lowest == SeqMin(low, d - divergence_lookback, d - 1)
                       min_price_day_idx ==
                           MinOf({j \in (d - divergence_lookback)..(d - 1) : low[j] = lowest})
                   IN  /\ Lt(low[d], lowest)
                       /\ Gt(rsi(d), rsi(min_price_day_idx))
        hits == {i \in 1..setup_lookback_days : Hit(i)}
    IN  IF n < divergence_lookback + rsi_period + setup_lookback_days \/ hits = {}
        THEN Outcome("none", info)
        ELSE DivergenceRecord(group, info, rsi(n - MinOf(hits) + 1), n - MinOf(hits) + 1)

\* BullishRsiDivergenceScanner.scan_company
BullishRsiDivergenceScan(params, group, info) ==
    LET rsi_period == ParamGet(params, "rsi_period", 14)
        divergence_lookback == ParamGet(params, "divergence_lookback", 30)
        setup_lookback_days == ParamGet(params, "setup_lookback_days", 2)
        n == Len(group)
        close == Closes(group)
        low == [j \in 1..n |-> group[j].low]
        rsi(j) == RSI(close, rsi_period, j)
        Hit(i) ==
            LET d == n - i + 1
            IN  /\ n >= divergence_lookback + i
                /\ NotNull(rsi(d)) /\ NotNull(SMA(close, 200, d))
                /\ divergence_lookback > 0   \* lookback_window.empty
                /\ LET lowest == SeqMin(low, d - divergence_lookback, d - 1)
                       min_price_day_idx ==
                           MinOf({j \in (d - divergence_lookback)..(d - 1) : low[j] = lowest})
                   IN  /\ Lt(close[d], SMA(close, 200, d))
                       /\ Lt(low[d], lowest)
                       /\ Gt(rsi(d), rsi(min_price_day_idx))
        hits == {i \in 1..setup_lookback_days : Hit(i)}
    IN  IF n < divergence_lookback + rsi_period + setup_lookback_days \/ hits = {}
        THEN Outcome("none", info)
        ELSE DivergenceRecord(group, info, rsi(n - MinOf(hits) + 1), n - MinOf(hits) + 1)

\* BearishRsiDivergenceScanner.scan_company
BearishRsiDivergenceScan(params, group, info) ==
    LET rsi_period == ParamGet(params, "rsi_period", 14)
        divergence_lookback == ParamGet(params, "divergence_lookback", 30)
        setup_lookback_days == ParamGet(params, "setup_lookback_days", 2)
        n == Len(group)
        close == Closes(group)
        high == [j \in 1..n |-> group[j].high]
        rsi(j) == RSI(close, rsi_period, j)
        Hit(i) ==
            LET d == n - i + 1
            IN  /\ n >= divergence_lookback + i
                /\ NotNull(rsi(d)) /\ NotNull(SMA(close, 200, d))
                /\ divergence_lookback > 0   \* lookback_window.empty
                /\ LET highest == SeqMax(high, d - divergence_lookback, d - 1)
                       max_price_day_idx ==
                           MinOf({j \in (d - divergence_lookback)..(d - 1) : high[j] = highest})
                   IN  /\ Gt(close[d], SMA(close, 200, d))
                       /\ Gt(high[d], highest)
                       /\ Lt(rsi(d), rsi(max_price_day_idx))
        hits == {i \in 1..setup_lookback_days : Hit(i)}
    IN  IF n < divergence_lookback + rsi_period + setup_lookback_days \/ hits = {}
        THEN Outcome("none", info)
        ELSE DivergenceRecord(group, info, rsi(n - MinOf(hits) + 1), n - MinOf(hits) + 1)

\* WyckoffSpringScanner.scan_company with the volume test left out
WyckoffSpringScan_AnyVolume(params, group, info) ==
    LET support_period == ParamGet(params, "support_period", 60)
        max_volume_ratio == ParamGet(params, "max_volume_ratio", Rat(6, 5))
        max_box_height_pct == ParamGet(params, "max_box_height_pct", N(10))
        min_close_position_pct == ParamGet(params, "min_close_position_pct", N(50))
        setup_lookback_days == ParamGet(params, "setup_lookback_days", 2)
        n == Len(group)
        close == Closes(group)
        high == [j \in 1..n |-> group[j].high]
        low == [j \in 1..n |-> group[j].low]
        volume == [j \in 1..n |-> group[j].volume]
        Minus(a, b) == RAdd(a, RMul(N(-1), b))
        support_level(d) == SeqMin(low, d - support_period, d - 1)
        Hit(i) ==
            LET d == n - i + 1
            IN  /\ n >= support_period + i
                /\ NotNull(SMA(volume, 20, d)) /\ NotNull(SMA(close, 50, d))
                /\ support_period > 0   \* range_window.empty
                /\ LET box_high == SeqMax(high, d - support_period, d - 1)
                       box_low == support_level(d)
                       box_height_pct ==
                           IF Gt(box_low, N(0))
                           THEN RMul(RDiv(Minus(box_high, box_low), box_low), N(100))
                           ELSE N(0)
                       bar_range == Minus(high[d], low[d])
                       close_pos_in_range ==
                           RMul(RDiv(Minus(close[d], low[d]), bar_range), N(100))
                   IN  /\ ~Eq(bar_range, N(0))
                       /\ Gt(box_height_pct, N(0)) /\ Lt(box_height_pct, max_box_height_pct)
                       /\ Lt(low[d], box_low) /\ Gt(close[d], box_low)
                       /\ Ge(close_pos_in_range, min_close_position_pct)
                       /\ TRUE
        hits == {i \in 1..setup_lookback_days : Hit(i)}
    IN  IF n < support_period + 1 + setup_lookback_days \/ hits = {}
        THEN Outcome("none", info)
        ELSE LET d == n - MinOf(hits) + 1
                 cleaned == DictDelIfPresent(info, <<"id", "isactive", "longbusinesssummary">>)
             IN  Outcome("match", DictSet(DictSet(cleaned, "support_level", support_level(d)),
                                          "spring_date", N(group[d].date)))

\* WyckoffSpringScanner.scan_company
WyckoffSpringScan(params, group, info) ==
    LET support_period == ParamGet(params, "support_period", 60)
        max_volume_ratio == ParamGet(params, "max_volume_ratio", Rat(6, 5))
        max_box_height_pct == ParamGet(params, "max_box_height_pct", N(10))
        min_close_position_pct == ParamGet(params, "min_close_position_pct", N(50))
        setup_lookback_days == ParamGet(params, "setup_lookback_days", 2)
        n == Len(group)
        close == Closes(group)
        high == [j \in 1..n |-> group[j].high]
        low == [j \in 1..n |-> group[j].low]
        volume == [j \in 1..n |-> group[j].volume]
        Minus(a, b) == RAdd(a, RMul(N(-1), b))
        support_level(d) == SeqMin(low, d - support_period, d - 1)
        Hit(i) ==
            LET d == n - i + 1
            IN  /\ n >= support_period + i
                /\ NotNull(SMA(volume, 20, d)) /\ NotNull(SMA(close, 50, d))
                /\ support_period > 0   \* range_window.empty
                /\ LET box_high == SeqMax(high, d - support_period, d - 1)
                       box_low == support_level(d)
                       box_height_pct ==
                           IF Gt(box_low, N(0))
                           THEN RMul(RDiv(Minus(box_high, box_low), box_low), N(100))
                           ELSE N(0)
                       bar_range == Minus(high[d], low[d])
                       close_pos_in_range ==
                           RMul(RDiv(Minus(close[d], low[d]), bar_range), N(100))
                   IN  /\ ~Eq(bar_range, N(0))
                       /\ Gt(box_height_pct, N(0)) /\ Lt(box_height_pct, max_box_height_pct)
                       /\ Lt(low[d], box_low) /\ Gt(close[d], box_low)
                       /\ Ge(close_pos_in_range, min_close_position_pct)
                       /\ Lt(RDiv(volume[d], SMA(volume, 20, d)), max_volume_ratio)
        hits == {i \in 1..setup_lookback_days : Hit(i)}
    IN  IF n < support_period + 1 + setup_lookback_days \/ hits = {}
        THEN Outcome("none", info)
        ELSE LET d == n - MinOf(hits) + 1
                 cleaned == DictDelIfPresent(info, <<"id", "isactive", "longbusinesssummary">>)
             IN  Outcome("match", DictSet(DictSet(cleaned, "support_level", support_level(d)),
                                          "spring_date", N(group[d].date)))

\* self.scan_company(group, company_info)
ScanCompany(sc, group, info) ==
    CASE sc.kind = "generic"      -> GenericScan(sc.params, group, info)
      [] sc.kind = "garp"         -> GARPScan(sc.params, group, info)
      [] sc.kind = "high_dividend_yield" -> HighDividendYieldScan(sc.params, group, info)
      [] sc.kind = "undervalued_pb" -> UndervaluedPbScan(sc.params, group, info)
      [] sc.kind = "golden_cross" -> GoldenCrossScan(sc.params, group, info)
      [] sc.kind = "death_cross"  -> DeathCrossScan(sc.params, group, info)
      [] sc.kind = "new_highs"    -> NewHighsScan(sc.params, group, info)
      [] sc.kind = "new_lows"     -> NewLowsScan(sc.params, group, info)
      [] sc.kind = "selling_climax" -> SellingClimaxScan(sc.params, group, info)
      [] sc.kind = "lorenz_regime" -> LorenzRegimeScan(sc.params, group, info)
      [] sc.kind = "bb_squeeze_breakout" -> BbSqueezeBreakoutScanShort(sc.params, group, info)
      [] sc.kind = "bullish_rsi_divergence" -> BullishRsiDivergenceScan(sc.params, group, info)
      [] sc.kind = "bearish_rsi_divergence" -> BearishRsiDivergenceScan(sc.params, group, info)
      [] sc.kind = "wyckoff_spring" -> WyckoffSpringScan(sc.params, group, info)
      [] sc.kind = "custom"       -> Outcome("match", info)

\* get_leading_columns()
LeadingColumns(sc) ==
    CASE sc.kind = "generic" ->
            ParamGet(sc.params, "output_columns", <<"symbol", "longname", "marketcap">>)
      [] sc.kind = "garp" ->
            <<"symbol", "trailingpegratio", "trailingpe", "earningsquarterlygrowth",
              "revenuegrowth", "longname", "industry", "marketcap">>
      [] sc.kind \in {"golden_cross", "death_cross"} ->
            <<"symbol", "sma50", "sma200", "crossover_date", "longname", "sector", "marketcap">>
      [] sc.kind = "high_dividend_yield" ->
            <<"symbol", "dividendyield", "payoutratio", "longname", "industry", "marketcap">>
      [] sc.kind = "undervalued_pb" ->
            <<"symbol", "pricetobook", "trailingpe", "debttoequity", "longname", "industry",
              "marketcap">>
      [] sc.kind = "new_highs" ->
            <<"symbol", "setup_date", "pct_of_high", "currentprice", "fiftytwoweekhigh",
              "rs_percentile", "longname", "industry", "marketcap">>
      [] sc.kind = "new_lows" ->
            <<"symbol", "setup_date", "pct_from_low", "currentprice", "fiftytwoweeklow",
              "rs_percentile", "longname", "industry", "marketcap">>
      [] sc.kind = "selling_climax" ->
            <<"symbol", "climax_date", "close_pos_in_range", "longname", "marketcap">>
      [] sc.kind = "lorenz_regime" ->
            <<"symbol", "longname", "industry", "marketcap", "lorenz_regime">>
      [] sc.kind = "bb_squeeze_breakout" ->
            <<"symbol", "breakout_date", "longname", "industry", "marketcap">>
      [] sc.kind = "custom" -> sc.leading
      [] sc.kind = "strongest_industries" ->
            <<"symbol", "longname", "industry", "industry_rs_percentile", "rs_percentile">>

\* get_sort_info()
SortInfo(sc) ==
    CASE sc.kind = "garp" -> [by |-> "trailingpegratio", ascending |-> TRUE]
      [] sc.kind = "high_dividend_yield" -> [by |-> "dividendyield", ascending |-> FALSE]
      [] sc.kind = "undervalued_pb" -> [by |-> "pricetobook", ascending |-> TRUE]
      [] sc.kind = "new_highs" -> [by |-> "pct_of_high", ascending |-> FALSE]
      [] sc.kind = "new_lows" -> [by |-> "pct_from_low", ascending |-> TRUE]
      [] sc.kind = "custom" -> [by |-> sc.sort_by, ascending |-> sc.ascending]
      [] sc.kind = "strongest_industries" ->
            [by |-> <<"industry_rs_percentile", "rs_percentile">>, ascending |-> <<FALSE, FALSE>>]
      [] sc.kind \in {"generic", "golden_cross", "death_cross", "selling_climax",
                      "lorenz_regime", "bb_squeeze_breakout"} ->
            [by |-> "marketcap", ascending |-> FALSE]

-----------------------------------------------------------------------------
(* Result tables: [columns: sequence of names, rows: sequence of col -> value] *)

NoResult == [columns |-> <<"<no result>">>, rows |-> <<>>]
EmptyTable == [columns |-> <<>>, rows |-> <<>>]

RECURSIVE UnionKeys(_, _)
\* the columns of pd.DataFrame(list of dicts): the keys in first-seen order
UnionKeys(dicts, acc) ==
    IF dicts = <<>> THEN acc
    ELSE UnionKeys(Tail(dicts),
                   acc \o SelectSeq(DictKeys(Head(dicts)), LAMBDA k : k \notin Range(acc)))

\* pd.DataFrame(passing_stocks)
DataFrame(dicts) ==
    LET cols == UnionKeys(dicts, <<>>)
    IN  [columns |-> cols,
         rows |-> [i \in 1..Len(dicts) |-> [k \in Range(cols) |-> DictGet(dicts[i], k)]]]

\* the leading columns taken in the table's order instead of the declared one
FinalColumnOrder_TableOrder(columns, leading) ==
    LET existing == SelectSeq(columns, LAMBDA col : col \in Range(leading))
        other == SelectSeq(columns, LAMBDA col : col \notin Range(existing))
    IN  existing \o other

\* existing_leading_columns + other_columns
FinalColumnOrder(columns, leading) ==
    LET existing == SelectSeq(leading, LAMBDA col : col \in Range(columns))
        other == SelectSeq(columns, LAMBDA col : col \notin Range(existing))
    IN  existing \o other

\* row a may stand before row b in df.sort_values(by, ascending): missing keys last
InOrder(a, b, ascending) ==
    \/ IsNull(b)
    \/ NotNull(a) /\ (IF ascending THEN Le(a, b) ELSE Ge(a, b))

\* the row orders sort_values may produce (ties in any order)
SortedOrders(rows, by, ascending) ==
    LET n == Len(rows)
        perms == {p \in [1..n -> 1..n] : \A i, j \in 1..n : i # j => p[i] # p[j]}
    IN  {p \in perms : \A i \in 1..(n - 1) : InOrder(rows[p[i]][by], rows[p[i + 1]][by], ascending)}

-----------------------------------------------------------------------------
(* BaseScanner.run_scan, as the steps of one run *)

\* candidates = candidate_query.all(); candidate_map; the early return
GetCandidates ==
    /\ pc = "start"
    /\ scanner.kind # "strongest_industries"   \* that class has its own run_scan
    /\ LET raises == scanner.kind = "generic" /\ BaseQueryRaises(scanner.params)
           ids == IF raises THEN {}
                  ELSE {id \in CompanyIds : CandidateQuery(scanner, company[id])}
       IN  /\ pc' = IF raises THEN "raised" ELSE IF ids = {} THEN "done" ELSE "fetch"
           /\ result' = IF ~raises /\ ids = {} THEN EmptyTable ELSE result
           /\ candidate_map' = [id \in ids |-> object_as_dict(company[id])]
    /\ UNCHANGED <<company, price_history, scanner, price_df, todo, scanned, passing_stocks>>
    /\ UNCHANGED hvars
    /\ UNCHANGED ovars

\* the step without "if price_df.empty: return": groupby on the empty frame raises
FetchPrices_NoEmptyCheck ==
    /\ pc = "fetch"
    /\ LET df == GetPriceHistory(price_history, DOMAIN candidate_map,
                                 ParamGet(scanner.params, "days_back", 500))
       IN  /\ price_df' = df
           /\ pc' = IF DOMAIN df = {} THEN "raised" ELSE "liquidity"
    /\ UNCHANGED <<company, price_history, scanner, candidate_map, todo, scanned, passing_stocks, result>>
    /\ UNCHANGED hvars
    /\ UNCHANGED ovars

\* price_df = self._get_price_history(...); the early return
FetchPrices ==
    /\ pc = "fetch"
    /\ LET df == GetPriceHistory(price_history, DOMAIN candidate_map,
                                 ParamGet(scanner.params, "days_back", 500))
       IN  /\ price_df' = df
           /\ pc' = IF DOMAIN df = {} THEN "done" ELSE "liquidity"
           /\ result' = IF DOMAIN df = {} THEN EmptyTable ELSE result
    /\ UNCHANGED <<company, price_history, scanner, candidate_map, todo, scanned, passing_stocks>>
    /\ UNCHANGED hvars
    /\ UNCHANGED ovars

\* the ids of a set in increasing order: the iteration order of groupby
RECURSIVE SortedIds(_)
SortedIds(S) == IF S = {} THEN <<>> ELSE <<MinOf(S)>> \o SortedIds(S \ {MinOf(S)})

\* step 4: the avg_volume column and the rows of the passing companies
LiquidityFilter ==
    /\ pc = "liquidity"
    /\ LET df == [id \in DOMAIN price_df |-> WithAvgVolume(price_df[id], scanner.params)]
           passing_volume_ids == {id \in DOMAIN df : PassesVolume(df[id], scanner.params)}
       IN  /\ price_df' = [id \in passing_volume_ids |-> df[id]]
           /\ todo' = SortedIds(passing_volume_ids)
    /\ pc' = "loop"
    /\ UNCHANGED <<company, price_history, scanner, candidate_map, scanned, passing_stocks, result>>
    /\ UNCHANGED hvars
    /\ UNCHANGED ovars

\* the loop of step 4 without "if result:": the dict of every call that
\* returned is collected
ScanStep_CollectAll ==
    /\ pc = "loop"
    /\ todo # <<>>
    /\ LET id == Head(todo)
           info == IF id \in DOMAIN candidate_map THEN candidate_map[id] ELSE <<>>
           called == info # <<>>
       IN  \E r \in {IF called THEN ScanCompany(scanner, price_df[id], info)
                      ELSE Outcome("none", info)} :
           /\ scanned' = IF called THEN Append(scanned, id) ELSE scanned
           /\ candidate_map' = IF called THEN [candidate_map EXCEPT ![id] = r.info]
                               ELSE candidate_map
           /\ passing_stocks' = IF r.out # "raise" /\ r.info # <<>>
                                THEN Append(passing_stocks, r.info) ELSE passing_stocks
           /\ pc' = IF r.out = "raise" THEN "raised" ELSE "loop"
    /\ todo' = Tail(todo)
    /\ UNCHANGED <<company, price_history, scanner, price_df, result>>
    /\ UNCHANGED hvars
    /\ UNCHANGED ovars

\* the loop of step 4 with the call of scan_company wrapped so that an
\* exception for one company is dropped and the loop goes on
ScanStep_Isolating ==
    /\ pc = "loop"
    /\ todo # <<>>
    /\ LET id == Head(todo)
           info == IF id \in DOMAIN candidate_map THEN candidate_map[id] ELSE <<>>
           called == info # <<>>
       IN  \E r \in {IF called THEN ScanCompany(scanner, price_df[id], info)
                      ELSE Outcome("none", info)} :
           /\ scanned' = IF called THEN Append(scanned, id) ELSE scanned
           /\ candidate_map' = IF called THEN [candidate_map EXCEPT ![id] = r.info]
                               ELSE candidate_map
           /\ passing_stocks' = IF r.out = "match" /\ r.info # <<>>
                                THEN Append(passing_stocks, r.info) ELSE passing_stocks
           /\ pc' = "loop"
    /\ todo' = Tail(todo)
    /\ UNCHANGED <<company, price_history, scanner, price_df, result>>
    /\ UNCHANGED hvars
    /\ UNCHANGED ovars

\* one iteration of: for company_id, group in price_df.groupby('company_id')
ScanStep ==
    /\ pc = "loop"
    /\ todo # <<>>
    /\ LET id == Head(todo)
           info == IF id \in DOMAIN candidate_map THEN candidate_map[id] ELSE <<>>
           called == info # <<>>
       IN  \E r \in {IF called THEN ScanCompany(scanner, price_df[id], info)
                      ELSE Outcome("none", info)} :
           /\ scanned' = IF called THEN Append(scanned, id) ELSE scanned
           /\ candidate_map' = IF called THEN [candidate_map EXCEPT ![id] = r.info]
                               ELSE candidate_map
           /\ passing_stocks' = IF r.out = "match" /\ r.info # <<>>
                                THEN Append(passing_stocks, r.info) ELSE passing_stocks
           /\ pc' = IF r.out = "raise" THEN "raised" ELSE "loop"
    /\ todo' = Tail(todo)
    /\ UNCHANGED <<company, price_history, scanner, price_df, result>>
    /\ UNCHANGED hvars
    /\ UNCHANGED ovars

\* step 5 on the collected records: the tables run_scan may return
FormatResults(sc, passing) ==
    LET df == DataFrame(passing)
        sort_info == SortInfo(sc)
        cols == FinalColumnOrder(df.columns, LeadingColumns(sc))
    IN  IF df.rows = <<>> THEN {df}
        ELSE IF sort_info.by \in Range(cols)
        THEN {[columns |-> cols, rows |-> [i \in 1..Len(df.rows) |-> df.rows[p[i]]]] :
                 p \in SortedOrders(df.rows, sort_info.by, sort_info.ascending)}
        ELSE {[columns |-> cols, rows |-> df.rows]}

\* df[col] = df[col].round(2) on a table; NaN stays NaN
RoundColumn(table, col) ==
    [table EXCEPT !.rows =
        [i \in 1..Len(@) |-> [@[i] EXCEPT ![col] = IF IsNull(@) THEN @ ELSE Round2(@)]]]

\* what the run_scan of the subclass does to the table of the base run_scan:
\* HighDividendYieldScanner rounds two columns of a non-empty table
AfterBaseRun(sc, table) ==
    IF sc.kind = "high_dividend_yield" /\ table.rows # <<>>
    THEN RoundColumn(RoundColumn(table, "dividendyield"), "payoutratio")
    ELSE table

\* step 5: the frame of the collected records, reordered and sorted, and the
\* return through the run_scan of the subclass
FormatOutput ==
    /\ pc = "loop"
    /\ todo = <<>>
    /\ result' \in {AfterBaseRun(scanner, t) : t \in FormatResults(scanner, passing_stocks)}
    /\ pc' = "done"
    /\ UNCHANGED <<company, price_history, scanner, candidate_map, price_df, todo, scanned, passing_stocks>>
    /\ UNCHANGED hvars
    /\ UNCHANGED ovars

Next == GetCandidates \/ FetchPrices \/ LiquidityFilter \/ ScanStep \/ FormatOutput

RECURSIVE ScanAll(_, _, _, _, _)
\* the loop of run_scan over the ids in iteration order, as a function:
\* [out, passing], out "raised" when a scan_company call raises
ScanAll(sc, df, cmap, ids, acc) ==
    IF ids = <<>> THEN [out |-> "done", passing |-> acc]
    ELSE LET id == Head(ids)
             info == IF id \in DOMAIN cmap THEN cmap[id] ELSE <<>>
             r == IF info # <<>> THEN ScanCompany(sc, df[id], info) ELSE Outcome("none", info)
         IN  IF r.out = "raise" THEN [out |-> "raised", passing |-> acc]
             ELSE ScanAll(sc, df, cmap, Tail(ids),
                          IF r.out = "match" /\ r.info # <<>> THEN Append(acc, r.info) ELSE acc)

\* run_scan of scanner sc on a store, as a function: [out, passing]
RunScan(sc, co, hist) ==
    IF sc.kind = "generic" /\ BaseQueryRaises(sc.params)
    THEN [out |-> "raised", passing |-> <<>>]
    ELSE LET ids == {id \in DOMAIN co : CandidateQuery(sc, co[id])}
             fetched == GetPriceHistory(hist, ids, ParamGet(sc.params, "days_back", 500))
             df == [id \in DOMAIN fetched |-> WithAvgVolume(fetched[id], sc.params)]
             passing_volume_ids == {id \in DOMAIN df : PassesVolume(df[id], sc.params)}
         IN  IF ids = {} \/ DOMAIN fetched = {} THEN [out |-> "done", passing |-> <<>>]
             ELSE ScanAll(sc, df, [id \in ids |-> object_as_dict(co[id])],
                          SortedIds(passing_volume_ids), <<>>)


-----------------------------------------------------------------------------
(* Initial states: the store and the scanner instance of one run *)

\* a PriceHistory row
Bar(date, open, high, low, close, volume, coef) ==
    [date |-> date, open |-> N(open), high |-> N(high), low |-> N(low),
     close |-> N(close), adjclose |-> N(close), volume |-> N(volume),
     split_coefficient |-> N(coef)]

\* a Company row; the growth rates are stored as fractions
Row(id, isactive, exchange, marketcap, peg) ==
    [id |-> id, isactive |-> isactive, exchange |-> exchange, marketcap |-> marketcap,
     trailingpe |-> N(10), trailingpegratio |-> peg,
     earningsquarterlygrowth |-> Rat(1, 5), revenuegrowth |-> Rat(1, 5),
     dividendyield |-> Rat(1, 20), payoutratio |-> Rat(1, 2), pricetobook |-> N(1),
     debttoequity |-> N(1), bookvalue |-> N(10), sectorkey |-> N(1)]

\* daily bars ending lag days ago, one per entry of the volume sequence
History(volumes, closes, lag) ==
    [i \in 1..Len(volumes) |->
        Bar(Today - lag - (Len(volumes) - i), closes[i], closes[i], closes[i],
            closes[i], volumes[i], 1)]

SeqsUpTo(S, n) == UNION {[1..k -> S] : k \in 0..n}

Flat(n, v) == [i \in 1..n |-> v]

StdRow(id) == Row(id, TRUE, "NYSE", N(2), Rat(1, 2))
StdHistory == History(<<3>>, <<5>>, 0)

\* the company under study: <<row, history>>, one of them varied
StarProfiles(id) ==
    {<<r, StdHistory>> : r \in
        {Row(id, FALSE, "NYSE", N(2), N(1)), Row(id, TRUE, "TOR", N(2), N(1)),
         Row(id, TRUE, "NYSE", N(1), N(1)), Row(id, TRUE, "NYSE", Null, N(1)),
         Row(id, TRUE, "NYSE", N(3), Rat(1, 3))}}
    \cup {<<StdRow(id), History(v, Flat(Len(v), 5), 0)>> : v \in SeqsUpTo({1, 3}, MaxBars)}
    \cup {<<StdRow(id), History(<<3>>, <<5>>, 2)>>}

\* the other companies of the store
OtherProfiles(id) ==
    {<<StdRow(id), StdHistory>>,
     <<Row(id, TRUE, "NYSE", N(3), N(1)), StdHistory>>,
     <<StdRow(id), History(<<1>>, <<5>>, 0)>>,
     <<Row(id, FALSE, "NYSE", N(2), N(1)), <<>> >>}

BaseParams(floor, window) ==
    [market |-> "us", min_market_cap |-> 1, min_avg_volume |-> floor,
     volume_lookback_days |-> window]

Scanners ==
    {[kind |-> "generic", params |-> BaseParams(2, 1)],
     [kind |-> "generic", params |-> BaseParams(2, 2)],
     [kind |-> "generic", params |-> BaseParams(2, 2) @@ [days_back |-> 1]],
     [kind |-> "garp", params |-> BaseParams(2, 2)],
     [kind |-> "golden_cross", params |-> BaseParams(2, 1)],
     [kind |-> "death_cross", params |-> BaseParams(3, 2)],
     [kind |-> "custom", params |-> BaseParams(2, 2),
      leading |-> <<"marketcap", "score", "symbol">>, sort_by |-> "score", ascending |-> FALSE],
     [kind |-> "custom", params |-> BaseParams(2, 2),
      leading |-> <<"marketcap", "symbol">>, sort_by |-> "symbol", ascending |-> TRUE]}

RECURSIVE Assignments(_, _, _, _)
\* the stores of companies 1..n: company star takes its profile from
\* stars[star], every other company id from others[id]
Assignments(n, star, stars, others) ==
    IF n = 0 THEN {<<>>}
    ELSE {Append(f, x) : f \in Assignments(n - 1, star, stars, others),
                         x \in (IF n = star THEN stars[n] ELSE others[n])}

\* the state before run_scan is called
InitRun(stars, others, scanners) ==
    /\ \E star \in CompanyIds :
          \E prof \in Assignments(NumCompanies, star, stars, others) :
             /\ company = [id \in CompanyIds |-> prof[id][1]]
             /\ price_history = [id \in CompanyIds |-> prof[id][2]]
    /\ scanner \in scanners
    /\ pc = "start"
    /\ candidate_map = <<>>
    /\ price_df = <<>>
    /\ todo = <<>>
    /\ scanned = <<>>
    /\ passing_stocks = <<>>
    /\ result = NoResult
    /\ h_scanners = <<>>
    /\ h_group = <<>>
    /\ h_info = <<>>
    /\ h_log = <<>>
    /\ OtherIdle

Init ==
    InitRun([id \in CompanyIds |-> StarProfiles(id)],
            [id \in CompanyIds |-> OtherProfiles(id)], Scanners)

Spec == Init /\ [][Next]_vars


-----------------------------------------------------------------------------
(* StrongestIndustriesScanner.run_scan *)

\* rs_column_map.get(rs_period_months, Company.relative_strength_percentile_252)
RsColumn(params) ==
    CASE ParamGet(params, "rs_period_months", 12) = 6 -> "relative_strength_percentile_126"
      [] ParamGet(params, "rs_period_months", 12) = 3 -> "relative_strength_percentile_63"
      [] OTHER -> "relative_strength_percentile_252"

\* the sets that sort_values(descending).head(n) may keep of S: n elements
\* (all of S if it has fewer) none of them below an element left out
TopSets(S, key, n) ==
    {T \in SUBSET S :
        /\ Cardinality(T) = (IF Cardinality(S) < n THEN Cardinality(S) ELSE n)
        /\ \A a \in T, b \in S \ T : Ge(key[a], key[b])}

RECURSIVE LexInOrder(_, _, _, _)
\* row a may stand before row b in sort_values(by = list, ascending = list)
LexInOrder(a, b, by, ascending) ==
    IF by = <<>> THEN TRUE
    ELSE LET x == a[Head(by)]
             y == b[Head(by)]
         IN  \/ (IF Head(ascending) THEN Lt(x, y) ELSE Gt(x, y))
             \/ Eq(x, y) /\ LexInOrder(a, b, Tail(by), Tail(ascending))

\* the columns of final_df before it is formatted: the query's columns and
\* the merged industry_rs_percentile
IndustryFrameColumns ==
    <<"symbol", "longname", "industry", "rs_percentile", "industry_rs_percentile">>

\* the tables StrongestIndustriesScanner.run_scan may return (rows that tie
\* in a sort may come in any order)
StrongestIndustriesResults(sc, co) ==
    LET rs_col == RsColumn(sc.params)
        ids == {id \in DOMAIN co :
                   /\ InMarket(co[id], ParamGet(sc.params, "market", "us"))
                   /\ NotNull(co[id].industry)
                   /\ NotNull(co[id][rs_col])
                   /\ Gt(co[id].marketcap, N(ParamGet(sc.params, "min_market_cap", 1000000000)))}
        Members(ind) == {id \in ids : co[id].industry = ind}
        valid_industries ==
            {ind \in {co[id].industry : id \in ids} :
                Cardinality(Members(ind)) >= ParamGet(sc.params, "min_industry_size", 30)}
        industry_rs(ind) ==
            LET m == SortedIds(Members(ind))
            IN  RDiv(SeqSum([i \in 1..Len(m) |-> co[m[i]][rs_col]], 1, Len(m)), N(Len(m)))
        rs(id) == co[id][rs_col]
        RowOf(id) ==
            [symbol |-> N(id), longname |-> N(id), industry |-> co[id].industry,
             rs_percentile |-> Round2(rs(id)),
             industry_rs_percentile |-> Round2(industry_rs(co[id].industry))]
        sort_info == SortInfo(sc)
        cols == FinalColumnOrder(IndustryFrameColumns, LeadingColumns(sc))
        Tables(stocks) ==
            LET seq == SortedIds(stocks)
                n == Len(seq)
                perms == {p \in [1..n -> 1..n] : \A i, j \in 1..n : i # j => p[i] # p[j]}
                sorted == Range(sort_info.by) \subseteq Range(cols)
            IN  {[columns |-> cols, rows |-> [i \in 1..n |-> RowOf(seq[p[i]])]] :
                    p \in {q \in perms :
                              IF sorted
                              THEN \A i \in 1..(n - 1) :
                                       LexInOrder(RowOf(seq[q[i]]), RowOf(seq[q[i + 1]]),
                                                  sort_info.by, sort_info.ascending)
                              ELSE \A i \in 1..n : q[i] = i}}
    IN  IF ids = {} \/ valid_industries = {} THEN {EmptyTable}
        ELSE UNION {UNION {Tables(UNION {pick[ind] : ind \in top_industries}) :
                              pick \in {f \in [top_industries -> SUBSET ids] :
                                           \A ind \in top_industries :
                                               f[ind] \in TopSets(Members(ind), [id \in ids |-> rs(id)],
                                                   ParamGet(sc.params, "top_n_stocks_per_industry", 5))}} :
                       top_industries \in TopSets(valid_industries,
                                                  [ind \in valid_industries |-> industry_rs(ind)],
                                                  ParamGet(sc.params, "top_n_industries", 5))}

\* StrongestIndustriesScanner.run_scan
StrongestIndustriesRun ==
    /\ pc = "start"
    /\ scanner.kind = "strongest_industries"
    /\ result' \in StrongestIndustriesResults(scanner, company)
    /\ pc' = "done"
    /\ UNCHANGED <<company, price_history, scanner, candidate_map, price_df, todo, scanned,
                   passing_stocks>>
    /\ UNCHANGED hvars
    /\ UNCHANGED ovars

\* a Company row with an industry and a relative-strength percentile
IndustryRow(id, industry, rs) ==
    Row(id, TRUE, "NYSE", N(2), N(1)) @@
    [industry |-> industry, relative_strength_percentile_252 |-> rs,
     relative_strength_percentile_126 |-> rs, relative_strength_percentile_63 |-> Null]

IndustryCompanyIds == 1..(NumCompanies + 1)

IndustryScanners ==
    {[kind |-> "strongest_industries",
      params |-> BaseParams(2, 1) @@ [top_n_industries |-> ni, top_n_stocks_per_industry |-> ns,
                                     min_industry_size |-> sz, rs_period_months |-> m]] :
        ni \in {1, 2}, ns \in {1, 2}, sz \in {1, 2}, m \in {12}}
    \cup {[kind |-> "strongest_industries",
           params |-> BaseParams(2, 1) @@ [min_industry_size |-> 1, rs_period_months |-> m]] :
             m \in {6, 3}}

InitIndustries ==
    /\ \E prof \in [IndustryCompanyIds ->
                        ({N(1), N(2)} \X {Null, N(1), N(2)}) \cup {<<Null, N(3)>>}] :
          company = [id \in IndustryCompanyIds |-> IndustryRow(id, prof[id][1], prof[id][2])]
    /\ price_history = [id \in IndustryCompanyIds |-> <<>>]
    /\ scanner \in IndustryScanners
    /\ pc = "start"
    /\ candidate_map = <<>>
    /\ price_df = <<>>
    /\ todo = <<>>
    /\ scanned = <<>>
    /\ passing_stocks = <<>>
    /\ result = NoResult
    /\ h_scanners = <<>>
    /\ h_group = <<>>
    /\ h_info = <<>>
    /\ h_log = <<>>
    /\ OtherIdle

\* a run of a scanner on the base run_scan, or of the industries scanner
InitAll == Init \/ InitIndustries

NextAll == Next \/ StrongestIndustriesRun

SpecAll == InitAll /\ [][NextAll]_vars

-----------------------------------------------------------------------------
(* Repeated calls of scan_company.  Each scanner instance of h_scanners is  *)
(* called up to MaxCalls times with the same price frame h_group and with  *)
(* its own snapshot dict h_info[k], the same object at every call; h_log   *)
(* records each call.                                                      *)

\* result = self.scan_company(group, company_info)
HarnessCall ==
    /\ pc = "harness"
    /\ \E k \in 1..Len(h_scanners) :
          /\ Len(h_log[k]) < MaxCalls
          /\ \E r \in {ScanCompany(h_scanners[k], h_group, h_info[k])} :
                 /\ h_info' = [h_info EXCEPT ![k] = r.info]
                 /\ h_log' = [h_log EXCEPT ![k] =
                                 Append(@, [out |-> r.out,
                                            ret |-> IF r.out = "match" THEN r.info ELSE <<>>,
                                            before |-> h_info[k],
                                            after |-> r.info])]
    /\ UNCHANGED <<h_scanners, h_group>>
    /\ UNCHANGED <<company, price_history, scanner, pc>>
    /\ UNCHANGED rvars
    /\ UNCHANGED ovars

NextPure == HarnessCall

\* the frame run_scan hands to scan_company for the bars of one company
GroupOf(hist, params) ==
    WithAvgVolume(GetPriceHistory([id \in {1} |-> hist], {1},
                                  ParamGet(params, "days_back", 500))[1], params)

\* BaseLen bars closing at 100 followed by the closes of tail
LongHistory(tail) ==
    History(Flat(BaseLen + Len(tail), 3), Flat(BaseLen, 100) \o tail, 0)

\* <<golden cross parameters, death cross parameters>>
CrossParams ==
    {<<BaseParams(2, 1), BaseParams(2, 1)>>,
     <<BaseParams(2, 1) @@ [crossover_lookback_days |-> 1],
       BaseParams(2, 1) @@ [crossover_lookback_days |-> 0]>>,
     <<BaseParams(2, 1) @@ [max_price_extension_pct |-> 0],
       BaseParams(2, 1) @@ [crossover_lookback_days |-> 1]>>}

\* the closes that follow the flat stretch: rises, falls and reversals
CrossTails == {<<101>>, <<99>>, <<90>>, <<101, 90>>, <<99, 110>>, <<101, 101>>}

\* <<scanner instances, price history>> of the harness
HarnessCases ==
    {<< <<[kind |-> "golden_cross", params |-> p[1]], [kind |-> "death_cross", params |-> p[2]]>>,
        LongHistory(tail) >> : p \in CrossParams, tail \in CrossTails}
    \cup
    {<< <<[kind |-> "garp", params |-> BaseParams(2, 1)],
          [kind |-> "high_dividend_yield", params |-> BaseParams(2, 1)],
          [kind |-> "undervalued_pb", params |-> BaseParams(2, 1)],
          [kind |-> "generic", params |-> BaseParams(2, 1)]>>,
        History(Flat(Len(c), 3), c, 0) >> : c \in SeqsUpTo({5}, MaxBars) \ {<<>>}}
    \cup
    {<< <<[kind |-> "new_highs", params |-> BaseParams(2, 1) @@ [setup_lookback_days |-> 1]]>>,
        History(Flat(252 + 1, 3), Flat(252, 100) \o <<c>>, 0) >> : c \in {99, 100}}

InitPure ==
    /\ \E case \in HarnessCases :
          /\ h_scanners = case[1]
          /\ h_group = GroupOf(case[2], case[1][1].params)
    /\ h_info = [k \in 1..Len(h_scanners) |-> object_as_dict(StdRow(1))]
    /\ h_log = [k \in 1..Len(h_scanners) |-> <<>>]
    /\ OtherIdle
    /\ pc = "harness"
    /\ company = <<>>
    /\ price_history = <<>>
    /\ scanner = [kind |-> "custom", params |-> BaseParams(2, 1)]
    /\ candidate_map = <<>>
    /\ price_df = <<>>
    /\ todo = <<>>
    /\ scanned = <<>>
    /\ passing_stocks = <<>>
    /\ result = NoResult

SpecPure == InitPure /\ [][NextPure]_vars

\* C2: two calls of scan_company of one scanner instance with the same
\* price frame and the same snapshot object give the same result.
C2_RepeatedCallSameResult ==
    \A k \in DOMAIN h_log :
        \A i, j \in DOMAIN h_log[k] :
            /\ h_log[k][i].out = h_log[k][j].out
            /\ h_log[k][i].ret = h_log[k][j].ret

\* C3: a call of scan_company leaves the snapshot dict it was given as it was.
C3_InputsNotMutated ==
    \A k \in DOMAIN h_log :
        \A i \in DOMAIN h_log[k] : h_log[k][i].after = h_log[k][i].before

\* C5: on one price frame, the golden cross scanner and the death cross
\* scanner never both return a match with the same crossover_date.
C5_NoSimultaneousCross ==
    \A k1, k2 \in DOMAIN h_log :
        (h_scanners[k1].kind = "golden_cross" /\ h_scanners[k2].kind = "death_cross") =>
            \A i \in DOMAIN h_log[k1], j \in DOMAIN h_log[k2] :
                ~ /\ h_log[k1][i].out = "match"
                  /\ h_log[k2][j].out = "match"
                  /\ DictGet(h_log[k1][i].ret, "crossover_date")
                         = DictGet(h_log[k2][j].ret, "crossover_date")

\* both scanners matched on the same frame, at different crossover dates
C5_Witness ==
    \E k1, k2 \in DOMAIN h_log :
        /\ h_scanners[k1].kind = "golden_cross" /\ h_scanners[k2].kind = "death_cross"
        /\ h_log[k1] # <<>> /\ h_log[k2] # <<>>
        /\ h_log[k1][1].out = "match" /\ h_log[k2][1].out = "match"
        /\ DictGet(h_log[k1][1].ret, "crossover_date")
               # DictGet(h_log[k2][1].ret, "crossover_date")

-----------------------------------------------------------------------------
(* Properties of run_scan *)

\* the raw bars of a company inside the lookback window of the run
WindowBars(id) ==
    SelectSeq(price_history[id],
              LAMBDA b : b.date >= Today - ParamGet(scanner.params, "days_back", 500))

\* the mean volume of the last min(n, volume_lookback_days) bars of a company
RecentAvgVolume(id) ==
    LET bars == WindowBars(id)
        n == Len(bars)
        w == ParamGet(scanner.params, "volume_lookback_days", 50)
        k == IF n < w THEN n ELSE w
    IN  RDiv(SeqSum([i \in 1..n |-> bars[i].volume], n - k + 1, n), N(k))

VolumeFloor == N(ParamGet(scanner.params, "min_avg_volume", 100000))

\* the companies that have a row in the returned table
ResultSymbols ==
    IF "symbol" \in Range(result.columns)
    THEN {result.rows[i]["symbol"] : i \in 1..Len(result.rows)}
    ELSE {}

IsCandidate(id) == CandidateQuery(scanner, company[id])

\* C1: a company whose latest rolling average volume is below min_avg_volume
\* is never passed to scan_company and never has a row in the result; a
\* company whose average equals the floor is kept and scanned.
C1_LiquidityFilter ==
    \A id \in CompanyIds :
        WindowBars(id) # <<>> =>
            /\ Lt(RecentAvgVolume(id), VolumeFloor) =>
                   id \notin Range(scanned) /\ N(id) \notin ResultSymbols
            /\ (Eq(RecentAvgVolume(id), VolumeFloor) /\ IsCandidate(id) /\ pc = "done") =>
                   id \in Range(scanned)

\* a finished run with one candidate below the floor and one exactly at it
C1_Witness ==
    /\ pc = "done"
    /\ \E id \in CompanyIds :
          IsCandidate(id) /\ WindowBars(id) # <<>> /\ Lt(RecentAvgVolume(id), VolumeFloor)
    /\ \E id \in CompanyIds :
          /\ IsCandidate(id) /\ Len(WindowBars(id)) >= 2
          /\ Eq(RecentAvgVolume(id), VolumeFloor)
          /\ id \in Range(scanned)

\* the candidate query of the run returns no company
NoCandidates == \A id \in CompanyIds : ~IsCandidate(id)

\* no candidate has a bar inside the lookback window
NoCandidateBars == \A id \in CompanyIds : IsCandidate(id) => WindowBars(id) = <<>>

\* C7: with no candidates, or no price bars of the candidates in the
\* lookback window, run_scan returns the empty table, does not raise, and
\* calls scan_company for no company.
C7_EmptyInputShortCircuit ==
    /\ (NoCandidates /\ pc # "start") =>
           pc = "done" /\ result = EmptyTable /\ scanned = <<>>
    /\ (NoCandidateBars /\ pc \notin {"start", "fetch"}) =>
           pc = "done" /\ result = EmptyTable /\ scanned = <<>>

\* a run that had candidates, none of them with bars in the window, has returned
C7_Witness ==
    /\ pc = "done"
    /\ ~NoCandidates
    /\ NoCandidateBars
    /\ \E id \in CompanyIds : IsCandidate(id) /\ price_history[id] # <<>>

\* the table before step 5 formats it
UnformattedColumns ==
    IF scanner.kind = "strongest_industries" THEN IndustryFrameColumns
    ELSE DataFrame(passing_stocks).columns

\* the sort keys and directions the scanner declares, as lists
DeclaredSort ==
    IF scanner.kind = "strongest_industries"
    THEN SortInfo(scanner)
    ELSE [by |-> <<SortInfo(scanner).by>>, ascending |-> <<SortInfo(scanner).ascending>>]

RECURSIVE Monotonic(_, _, _, _)
\* row a does not come after row b when it must come before it: on the first
\* key on which both rows have different values, a is on the declared side;
\* a row without a value for the key comes after every row that has one
Monotonic(a, b, by, ascending) ==
    IF by = <<>> THEN TRUE
    ELSE LET x == a[Head(by)]
             y == b[Head(by)]
         IN  IF IsNull(x) \/ IsNull(y) THEN IsNull(y)
             ELSE IF Eq(x, y) THEN Monotonic(a, b, Tail(by), Tail(ascending))
             ELSE IF Head(ascending) THEN Lt(x, y) ELSE Gt(x, y)

\* C6: in a non-empty result table the declared leading columns that exist
\* come first in declared order, then the remaining columns in their original
\* order; if the sort key is a column the rows are ordered by it in the
\* declared direction (rows without a value last), and if it is not a column
\* the rows are those collected, in the order in which they were collected.
C6_ColumnOrderAndSort ==
    (pc = "done" /\ result.rows # <<>>) =>
        LET declared == LeadingColumns(scanner)
            present == SelectSeq(declared, LAMBDA c : c \in Range(UnformattedColumns))
            rest == SelectSeq(UnformattedColumns, LAMBDA c : c \notin Range(declared))
            n == Len(result.rows)
        IN  /\ result.columns = present \o rest
            /\ Range(DeclaredSort.by) \subseteq Range(result.columns) =>
                   \A i \in 1..(n - 1) :
                       Monotonic(result.rows[i], result.rows[i + 1],
                                 DeclaredSort.by, DeclaredSort.ascending)
            /\ ~(Range(DeclaredSort.by) \subseteq Range(result.columns)) =>
                   result.rows = DataFrame(passing_stocks).rows
            /\ scanner.kind # "strongest_industries" =>
                   /\ n = Len(passing_stocks)
                   /\ Range(result.rows) = Range(DataFrame(passing_stocks).rows)

\* a returned table whose columns were reordered and whose rows were
\* reordered by the sort
C6_Witness ==
    /\ pc = "done"
    /\ scanner.kind # "strongest_industries"
    /\ Len(result.rows) >= 2
    /\ SortInfo(scanner).by \in Range(result.columns)
    /\ result.columns # DataFrame(passing_stocks).columns
    /\ result.rows # DataFrame(passing_stocks).rows


-----------------------------------------------------------------------------
(* _get_price_history on stores with split coefficients *)

\* price_df = self._get_price_history(db, company_ids, days_back)
FetchAdjusted ==
    /\ pc = "split"
    /\ price_df' = GetPriceHistory(price_history, CompanyIds,
                                   ParamGet(scanner.params, "days_back", 500))
    /\ pc' = "adjusted"
    /\ UNCHANGED <<company, price_history, scanner, candidate_map, todo, scanned,
                   passing_stocks, result>>
    /\ UNCHANGED hvars
    /\ UNCHANGED ovars

NextSplit == FetchAdjusted

\* daily bars ending today with the given split coefficients; open, high,
\* low and close differ within a bar
SplitHistory(coefs) ==
    [i \in 1..Len(coefs) |->
        Bar(Today - (Len(coefs) - i), 8 * i, 12 * i, 4 * i, 10 * i, 3, coefs[i])]

InitSplit ==
    /\ \E star \in CompanyIds :
          price_history \in
              Assignments(NumCompanies, star,
                  [id \in CompanyIds |-> {SplitHistory(c) : c \in SeqsUpTo({0, 1, 2}, MaxBars)}],
                  [id \in CompanyIds |->
                      {SplitHistory(<<1, 1>>), SplitHistory(<<2>>), SplitHistory(<<>>)}])
    /\ scanner \in {[kind |-> "custom", params |-> BaseParams(2, 1)],
                    [kind |-> "custom", params |-> BaseParams(2, 1) @@ [days_back |-> 1]]}
    /\ pc = "split"
    /\ company = <<>>
    /\ candidate_map = <<>>
    /\ price_df = <<>>
    /\ todo = <<>>
    /\ scanned = <<>>
    /\ passing_stocks = <<>>
    /\ result = NoResult
    /\ h_scanners = <<>>
    /\ h_group = <<>>
    /\ h_info = <<>>
    /\ h_log = <<>>
    /\ OtherIdle

SpecSplit == InitSplit /\ [][NextSplit]_vars

\* C4: when every split coefficient of a company is 1, the open, high, low
\* and close of each of its bars after the adjustment equal the stored values.
C4_SplitAdjustIdentityOnOnes ==
    pc = "adjusted" =>
        \A id \in DOMAIN price_df :
            (\A i \in 1..Len(WindowBars(id)) : WindowBars(id)[i].split_coefficient = N(1)) =>
                /\ Len(price_df[id]) = Len(WindowBars(id))
                /\ \A i \in 1..Len(price_df[id]) :
                       /\ price_df[id][i].open = WindowBars(id)[i].open
                       /\ price_df[id][i].high = WindowBars(id)[i].high
                       /\ price_df[id][i].low = WindowBars(id)[i].low
                       /\ price_df[id][i].close = WindowBars(id)[i].close

\* a fetched frame holding a company with several bars, all of coefficient 1,
\* next to a company whose prices the adjustment changed
C4_Witness ==
    /\ pc = "adjusted"
    /\ \E id \in DOMAIN price_df :
          /\ Len(price_df[id]) >= 2
          /\ \A i \in 1..Len(WindowBars(id)) : WindowBars(id)[i].split_coefficient = N(1)
    /\ \E id \in DOMAIN price_df : price_df[id][1].close # WindowBars(id)[1].close


-----------------------------------------------------------------------------
(* GenericScreener runs over lists of Filter Specifications *)

Filter(name, op, value) == [name |-> name, op |-> op, value |-> value]

\* well-formed filters on database attributes
DbFilters ==
    {Filter("marketcap", ">=", VNum(2)), Filter("marketcap", ">", VNum(2)),
     Filter("marketcap", "<", VNum(2)), Filter("marketcap", "<=", VNum(1)),
     Filter("marketcap", "==", VNum(2)), Filter("marketcap", "=", VNum(2)),
     Filter("marketcap", "in", VList(<<N(1), N(3)>>)),
     Filter("dividendyield", ">", VNum(4)), Filter("dividendyield", ">", VNum(5))}

\* well-formed filters on indicators
TechFilters ==
    {Filter("sma", ">", VMap([period |-> 2])), Filter("sma", "<", VMap([period |-> 2])),
     Filter("ema", ">", VMap([period |-> 2])),
     Filter("rsi", "<", VMap([period |-> 2, value |-> N(30)])),
     Filter("rsi", ">", VMap([period |-> 2, value |-> N(30)])),
     Filter("adx", ">", VMap([period |-> 2, value |-> N(25)]))}

\* filters whose name is not a key of FILTER_MAP
UnknownFilters ==
    {Filter("beta_score", ">", VNum(1)), Filter("vwap", "<", VMap([period |-> 2]))}

\* filters with name, op, value or the threshold missing or None
MalformedFilters ==
    {Filter(NoneStr, ">", VNum(2)), Filter("marketcap", NoneStr, VNum(2)),
     Filter("marketcap", ">", VMissing), Filter("marketcap", ">", VNull),
     Filter("sma", NoneStr, VMap([period |-> 2])), Filter("sma", ">", VMissing),
     Filter("sma", ">", VNull), Filter("rsi", "<", VMap([period |-> 2]))}

\* the second filter of the two-filter lists
SecondFilters ==
    {Filter("marketcap", ">=", VNum(2)), Filter("marketcap", "<", VNum(2)),
     Filter("sma", "<", VMap([period |-> 2])),
     Filter("rsi", "<", VMap([period |-> 2, value |-> N(30)])),
     Filter("beta_score", ">", VNum(1))}

FilterLists ==
    LET all == DbFilters \cup TechFilters \cup UnknownFilters \cup MalformedFilters
    IN  {<<>>} \cup {<<f>> : f \in all} \cup {<<f, g>> : f \in all, g \in SecondFilters}
               \cup {<<g, f>> : f \in UnknownFilters \cup MalformedFilters, g \in SecondFilters}

GenericScanners ==
    {[kind |-> "generic", params |-> BaseParams(2, 1) @@ [filters |-> fs]] : fs \in FilterLists}

\* falling closes: the last close is below its 2-bar average, RSI(2) is 0
FallingHistory == History(<<3, 3, 3>>, <<7, 6, 5>>, 0)

\* the company under study: <<row, history>>, one of them varied
GenericStarProfiles(id) ==
    {<<r, FallingHistory>> : r \in
        {StdRow(id), Row(id, TRUE, "NYSE", N(1), N(1)), Row(id, TRUE, "NYSE", N(3), N(1)),
         Row(id, TRUE, "NYSE", Null, N(1)), Row(id, FALSE, "NYSE", N(2), N(1))}}
    \cup {<<StdRow(id), History(Flat(Len(c), 3), c, 0)>> :
             c \in {<<5, 6, 7>>, <<5, 5, 5>>, <<5, 6>>, <<5>>, <<>>}}
    \cup {<<StdRow(id), History(<<1, 1, 1>>, <<7, 6, 5>>, 0)>>}

GenericOtherProfiles(id) ==
    {<<Row(id, TRUE, "NYSE", N(3), N(1)), FallingHistory>>,
     <<StdRow(id), History(<<3, 3, 3>>, <<5, 6, 7>>, 0)>>}

InitGeneric ==
    InitRun([id \in CompanyIds |-> GenericStarProfiles(id)],
            [id \in CompanyIds |-> GenericOtherProfiles(id)], GenericScanners)

SpecGeneric == InitGeneric /\ [][Next]_vars


\* the filter list of the run
RunFilters == ParamGet(scanner.params, "filters", <<>>)

\* the scanner of the run with filter i taken out of its list
WithoutFilter(i) ==
    [scanner EXCEPT !.params.filters = SubSeq(@, 1, i - 1) \o SubSeq(@, i + 1, Len(@))]

\* the finished run went as a run of scanner sc on the same store goes:
\* both raise, or both return the same records in the same table
SameOutcomeAs(sc) ==
    LET ref == RunScan(sc, company, price_history)
    IN  /\ (pc = "raised") <=> (ref.out = "raised")
        /\ pc = "done" => /\ passing_stocks = ref.passing
                          /\ result \in FormatResults(sc, ref.passing)

RunFinished == scanner.kind = "generic" /\ pc \in {"done", "raised"}

\* C9: a filter whose name is not a recognized filter name is ignored in
\* both stages: the run ends as the run of the same list without that filter
\* ends (same records, same table, and an error only if that run has one).
C9_UnknownFilterIgnored ==
    RunFinished =>
        \A i \in 1..Len(RunFilters) :
            (RunFilters[i].name # NoneStr /\ RunFilters[i].name \notin DOMAIN FILTER_MAP) =>
                SameOutcomeAs(WithoutFilter(i))

\* a run whose list holds an unrecognized filter next to a recognized one
\* has returned a company
C9_Witness ==
    /\ RunFinished /\ pc = "done"
    /\ result.rows # <<>>
    /\ \E i, j \in 1..Len(RunFilters) :
          /\ RunFilters[i].name # NoneStr /\ RunFilters[i].name \notin DOMAIN FILTER_MAP
          /\ RunFilters[j].name \in DOMAIN FILTER_MAP
    /\ \E id \in CompanyIds : IsCandidate(id) /\ N(id) \notin ResultSymbols

\* name, op or value missing or None
Malformed(f) == f.name = NoneStr \/ f.op = NoneStr \/ f.value[1] \in {"missing", "null"}

\* C10: a malformed Filter Specification (name, op or value missing or null)
\* is skipped and never raises, for database and indicator filters alike:
\* the run ends as the run of the list without that filter ends.
C10_MalformedFilterSkipped ==
    RunFinished =>
        \A i \in 1..Len(RunFilters) :
            Malformed(RunFilters[i]) => SameOutcomeAs(WithoutFilter(i))

\* the comparison an operator of a Filter Specification stands for
Compare(a, op, b) ==
    CASE op = ">"  -> Gt(a, b)
      [] op = ">=" -> Ge(a, b)
      [] op = "<"  -> Lt(a, b)
      [] op = "<=" -> Le(a, b)
      [] op \in {"==", "="} -> Eq(a, b)

\* the filters the statement C8 is about: recognized name, all three parts
\* present, a database operator on a database attribute or a comparison on
\* sma, ema or rsi
InScope(f) ==
    /\ ~Malformed(f)
    /\ f.name \in DOMAIN FILTER_MAP
    /\ IF FILTER_MAP[f.name].source = "db"
       THEN \/ f.op \in {">", ">=", "<", "<=", "==", "="} /\ f.value[1] = "num"
            \/ f.op = "in" /\ f.value[1] = "list" /\ f.value[2] # <<>>
       ELSE /\ f.name \in {"sma", "ema", "rsi"} /\ f.op \in {">", "<"} /\ f.value[1] = "map"
            /\ "period" \in DOMAIN f.value[2]
            /\ f.name = "rsi" => "value" \in DOMAIN f.value[2]

\* the active companies of the market with bars in the window and enough volume
EligibleIds ==
    {id \in CompanyIds :
        /\ InMarket(company[id], ParamGet(scanner.params, "market", "us"))
        /\ WindowBars(id) # <<>>
        /\ Ge(RecentAvgVolume(id), VolumeFloor)}

\* company id with its bars (no split in the window) satisfies filter f
Satisfies(id, f) ==
    LET close == Closes(WindowBars(id))
        n == Len(close)
    IN  IF FILTER_MAP[f.name].source = "db"
        THEN LET attr == company[id][FILTER_MAP[f.name].attr]
             IN  /\ NotNull(attr)
                 /\ IF f.op = "in" THEN attr \in Range(f.value[2])
                    ELSE Compare(attr, f.op,
                                 IF FILTER_MAP[f.name].type = "percentage"
                                 THEN RDiv(f.value[2], N(100)) ELSE f.value[2])
        ELSE LET period == f.value[2].period
             IN  CASE f.name = "sma" -> n >= period /\ Compare(close[n], f.op, SMA(close, period, n))
                   [] f.name = "ema" -> n >= period /\ Compare(close[n], f.op, EMA(close, period, n))
                   [] f.name = "rsi" -> /\ n >= period + 1
                                        /\ Compare(RSI(close, period, n), f.op, f.value[2].value)

\* two database filters on one attribute whose bounds exclude each other
Contradictory(f, g) ==
    /\ FILTER_MAP[f.name].source = "db" /\ f.name = g.name
    /\ f.op \in {">", ">="} /\ g.op \in {"<", "<="}
    /\ \/ Gt(f.value[2], g.value[2])
       \/ Eq(f.value[2], g.value[2]) /\ (f.op = ">" \/ g.op = "<")

\* the symbols of a list of result records
SymbolsOf(records) == {DictGet(records[i], "symbol") : i \in 1..Len(records)}

\* C8: GenericScreener returns exactly the companies that satisfy every
\* database filter and every indicator filter of the list; taking a filter
\* out of the list gives a superset; filters with contradictory bounds on one
\* attribute give an empty table and no error.
C8_ExactlySatisfyingAll ==
    (RunFinished /\ \A i \in 1..Len(RunFilters) : InScope(RunFilters[i])) =>
        /\ pc = "done"
        /\ ResultSymbols =
              {N(id) : id \in {c \in EligibleIds :
                                  \A i \in 1..Len(RunFilters) : Satisfies(c, RunFilters[i])}}
        /\ \A i \in 1..Len(RunFilters) :
              LET ref == RunScan(WithoutFilter(i), company, price_history)
              IN  ref.out = "done" /\ ResultSymbols \subseteq SymbolsOf(ref.passing)
        /\ (\E i, j \in 1..Len(RunFilters) : Contradictory(RunFilters[i], RunFilters[j])) =>
              result.rows = <<>>

-----------------------------------------------------------------------------
(* The database stage of GenericScreener: the operators of _get_base_query *)

\* a database filter with all three parts and a recognized database operator
DbInScope(f) ==
    /\ ~Malformed(f)
    /\ f.name \in DOMAIN FILTER_MAP
    /\ FILTER_MAP[f.name].source = "db"
    /\ \/ f.op \in {">", ">=", "<", "<=", "==", "="} /\ f.value[1] = "num"
       \/ f.op = "in" /\ f.value[1] = "list" /\ f.value[2] # <<>>

\* the database filters of the run's list
RunDbFilters == FiltersOf(RunFilters, "db")

\* the candidate query of the run has been evaluated
CandidatesSelected == scanner.kind = "generic" /\ pc \notin {"start", "raised"}

\* C11: for each recognized database operator (>, >=, <, <=, ==, =, in) the
\* candidates of a run are restricted to the companies whose attribute is
\* non-null and stands in that comparison to the filter value, op '=' being
\* equality like '=='; and when every database filter of the list is such a
\* filter, the candidates are exactly the active companies of the market
\* that satisfy them all.
C11_DbOperatorRestricts ==
    CandidatesSelected =>
        /\ \A i \in 1..Len(RunDbFilters) :
              DbInScope(RunDbFilters[i]) =>
                  \A id \in DOMAIN candidate_map : Satisfies(id, RunDbFilters[i])
        /\ (\A i \in 1..Len(RunDbFilters) : DbInScope(RunDbFilters[i])) =>
              DOMAIN candidate_map =
                  {id \in CompanyIds :
                      /\ InMarket(company[id], ParamGet(scanner.params, "market", "us"))
                      /\ \A i \in 1..Len(RunDbFilters) : Satisfies(id, RunDbFilters[i])}

-----------------------------------------------------------------------------
(* Runs of the scanners that select on fundamentals: GARP, HighDividendYield, *)
(* UndervaluedPb, GenericScreener with percentage filters, and the          *)
(* industries scanner on a store that has price bars                         *)

\* a Company row with the given fractions: dividend yield, payout ratio,
\* quarterly EPS growth, and with the given price-to-book ratio
FundRow(id, dy, payout, eps, pb) ==
    [StdRow(id) EXCEPT !.dividendyield = dy, !.payoutratio = payout,
                       !.earningsquarterlygrowth = eps, !.pricetobook = pb]

LowVolumeHistory == History(<<1>>, <<5>>, 0)

\* the company under study: <<row, history>>
FundStarProfiles(id) ==
    {<<FundRow(id, dy, Rat(1, 2), Rat(1, 5), N(1)), h>> :
         dy \in {Rat(1, 20), Rat(1, 50), Rat(3, 100), N(5)}, h \in {StdHistory, LowVolumeHistory}}
    \cup {<<FundRow(id, Rat(1, 20), po, Rat(1, 5), N(1)), StdHistory>> :
             po \in {N(0), Rat(9, 10), N(50), Null}}
    \cup {<<FundRow(id, Rat(1, 20), Rat(1, 2), eps, N(1)), StdHistory>> :
             eps \in {Rat(1, 10), Rat(1, 20), N(20)}}
    \cup {<<FundRow(id, Rat(1, 20), Rat(1, 2), Rat(1, 5), pb), StdHistory>> :
             pb \in {N(2), Null}}

FundOtherProfiles(id) ==
    {<<FundRow(id, N(4), N(40), Rat(1, 5), N(1)), StdHistory>>,
     <<FundRow(id, Rat(1, 25), Rat(2, 5), Rat(3, 10), Rat(1, 2)), StdHistory>>}

FundScanners ==
    {[kind |-> "high_dividend_yield", params |-> BaseParams(2, 1)],
     [kind |-> "high_dividend_yield",
      params |-> BaseParams(2, 1) @@ [min_dividend_yield_pct |-> 4, max_payout_ratio_pct |-> 60]],
     [kind |-> "garp", params |-> BaseParams(2, 1)],
     [kind |-> "garp", params |-> BaseParams(2, 1) @@ [min_eps_growth_pct |-> 25]],
     [kind |-> "undervalued_pb", params |-> BaseParams(2, 1)],
     [kind |-> "generic",
      params |-> BaseParams(2, 1) @@ [filters |-> <<Filter("dividendyield", ">", VNum(4))>>]],
     [kind |-> "generic",
      params |-> BaseParams(2, 1) @@ [filters |-> <<Filter("dividendyield", "<=", VNum(3))>>]]}

\* the industries scanner on a store whose companies have price bars
InitIndustryVolumes ==
    /\ \E prof \in [IndustryCompanyIds ->
                        {N(1), N(2)} \X {N(1), N(2)} \X {StdHistory, LowVolumeHistory}] :
          /\ company = [id \in IndustryCompanyIds |-> IndustryRow(id, prof[id][1], prof[id][2])]
          /\ price_history = [id \in IndustryCompanyIds |-> prof[id][3]]
    /\ scanner \in {sc \in IndustryScanners : sc.params.rs_period_months = 12}
    /\ pc = "start"
    /\ candidate_map = <<>>
    /\ price_df = <<>>
    /\ todo = <<>>
    /\ scanned = <<>>
    /\ passing_stocks = <<>>
    /\ result = NoResult
    /\ h_scanners = <<>>
    /\ h_group = <<>>
    /\ h_info = <<>>
    /\ h_log = <<>>
    /\ OtherIdle

InitFund ==
    \/ InitRun([id \in CompanyIds |-> FundStarProfiles(id)],
               [id \in CompanyIds |-> FundOtherProfiles(id)], FundScanners)
    \/ InitIndustryVolumes

SpecFund == InitFund /\ [][NextAll]_vars

\* company id is selected by the candidate query when every user-facing
\* percentage is divided by 100 before it is compared with the stored fraction
SelectedWithFractions(id) ==
    LET c == company[id]
        p == scanner.params
        Pct(name, default) == Rat(ParamGet(p, name, default), 100)
        base == /\ InMarket(c, ParamGet(p, "market", "us"))
                /\ Gt(c.marketcap, N(ParamGet(p, "min_market_cap", 1000000000)))
    IN  CASE scanner.kind = "high_dividend_yield" ->
               /\ base
               /\ Gt(c.dividendyield, Pct("min_dividend_yield_pct", 3))
               /\ Gt(c.payoutratio, N(0))
               /\ Lt(c.payoutratio, Pct("max_payout_ratio_pct", 80))
          [] scanner.kind = "garp" ->
               /\ base
               /\ Gt(c.trailingpe, N(0))
               /\ Lt(c.trailingpe, N(ParamGet(p, "max_pe_ratio", 25)))
               /\ Gt(c.trailingpegratio, N(0))
               /\ Lt(c.trailingpegratio, ParamGet(p, "max_peg_ratio", Rat(3, 2)))
               /\ Gt(c.earningsquarterlygrowth, Pct("min_eps_growth_pct", 10))
               /\ Gt(c.revenuegrowth, Pct("min_revenue_growth_pct", 10))
          [] scanner.kind = "generic" ->
               /\ InMarket(c, ParamGet(p, "market", "us"))
               /\ \A i \in 1..Len(RunDbFilters) :
                      LET f == RunDbFilters[i]
                      IN  /\ NotNull(c[FILTER_MAP[f.name].attr])
                          /\ Compare(c[FILTER_MAP[f.name].attr], f.op,
                                     IF FILTER_MAP[f.name].type = "percentage"
                                     THEN RDiv(f.value[2], N(100)) ELSE f.value[2])

\* C12: a candidate query that compares a user-facing percentage with an
\* attribute stored as a fraction divides the percentage by 100 first, in
\* GenericScreener 'percentage' filters and in the GARP and HighDividendYield
\* scanners alike: the candidates are the companies the query selects with
\* the thresholds divided by 100.
C12_PercentageDividedBy100 ==
    (scanner.kind \in {"high_dividend_yield", "garp", "generic"}
        /\ pc \notin {"start", "raised"}) =>
            DOMAIN candidate_map = {id \in CompanyIds : SelectedWithFractions(id)}

-----------------------------------------------------------------------------
(* Runs on stores in which one company has a short price history *)

\* the lengths of the short history
ShortLengths == {1, 2, 3, 19, 20, 22, 119, 199, 200, 204, 205, 253}

\* n bars of volume 3: all closing at 100, or the last one closing at 101
ShortHistories(lengths) ==
    {History(Flat(n, 3), Flat(n, 100), 0) : n \in lengths}
    \cup {History(Flat(n, 3), Flat(n - 1, 100) \o <<101>>, 0) : n \in lengths \ {1}}

ShortScanners ==
    {[kind |-> "golden_cross", params |-> BaseParams(2, 1)],
     [kind |-> "golden_cross", params |-> BaseParams(2, 1) @@ [crossover_lookback_days |-> 1]],
     [kind |-> "death_cross", params |-> BaseParams(2, 1)],
     [kind |-> "new_highs", params |-> BaseParams(2, 1)],
     [kind |-> "new_lows", params |-> BaseParams(2, 1)],
     [kind |-> "selling_climax", params |-> BaseParams(2, 1)],
     [kind |-> "lorenz_regime", params |-> BaseParams(2, 1)]}

\* GenericScreener instances with indicator filters
ShortGenericScanners ==
    {[kind |-> "generic",
      params |-> BaseParams(2, 1) @@ [filters |-> <<Filter("sma", ">", VMap([period |-> 20]))>>]],
     [kind |-> "generic",
      params |-> BaseParams(2, 1) @@ [filters |-> <<Filter("ema", "<=", VMissing)>>]],
     [kind |-> "generic",
      params |-> BaseParams(2, 1) @@
                 [filters |-> <<Filter("rsi", "<", VMap([period |-> 14, value |-> N(30)])),
                                Filter("sma", ">", VMap([period |-> 3]))>>]]}

InitShort ==
    \/ InitRun([id \in CompanyIds |-> {<<StdRow(id), h>> : h \in ShortHistories(ShortLengths)}],
               [id \in CompanyIds |-> {<<StdRow(id), LongHistory(<<101>>)>>}], ShortScanners)
    \/ InitRun([id \in CompanyIds |->
                   {<<StdRow(id), h>> : h \in ShortHistories({n \in ShortLengths : n < 200})}],
               [id \in CompanyIds |-> {<<StdRow(id), History(Flat(150, 3), Flat(150, 100), 0)>>}],
               {[kind |-> "bb_squeeze_breakout", params |-> BaseParams(2, 1)]})
    \/ InitRun([id \in CompanyIds |->
                   {<<StdRow(id), h>> : h \in ShortHistories({n \in ShortLengths : n < 25})}],
               [id \in CompanyIds |-> {<<StdRow(id), History(Flat(30, 3), Flat(30, 100), 0)>>}],
               ShortGenericScanners)

SpecShort == InitShort /\ [][Next]_vars

\* the larger of two numbers
Max(a, b) == IF a >= b THEN a ELSE b

RECURSIVE FiltersMinimum(_)
\* the bars an indicator filter list needs: the largest need of its filters
FiltersMinimum(fs) ==
    IF fs = <<>> THEN 0
    ELSE LET f == Head(fs)
             need == CASE f.name \in {"sma", "ema"} -> SubParam(f.value, "period", 20)
                       [] f.name = "rsi" -> SubParam(f.value, "period", 14) + 1
                       [] OTHER -> 0
         IN  Max(need, FiltersMinimum(Tail(fs)))

\* the minimum history of a scanner: the fewest bars with which its
\* scan_company goes on to evaluate its condition
MinimumHistory(sc) ==
    CASE sc.kind \in {"golden_cross", "death_cross"} ->
            200 + ParamGet(sc.params, "crossover_lookback_days", 5)
      [] sc.kind \in {"new_highs", "new_lows"} ->
            252 + ParamGet(sc.params, "setup_lookback_days", 2)
      [] sc.kind = "selling_climax" ->
            ParamGet(sc.params, "new_low_period", 20) + 1
                + ParamGet(sc.params, "setup_lookback_days", 2)
      [] sc.kind = "lorenz_regime" ->
            Max(201, ParamGet(sc.params, "lookback_period", 50) + 2)
      [] sc.kind = "bb_squeeze_breakout" -> ParamGet(sc.params, "squeeze_period", 120)
      [] sc.kind = "generic" ->
            FiltersMinimum(FiltersOf(ParamGet(sc.params, "filters", <<>>), "tech"))
      [] OTHER -> 0

\* the k-th company scanned had fewer bars than the scanner's minimum
ShortAt(k) == Len(price_df[scanned[k]]) < MinimumHistory(scanner)

\* C13: a company with fewer bars than the scanner's minimum history is
\* skipped, not errored: scan_company returns none for it without raising
\* (no record of it is collected and the run does not end in an error at
\* it), and the run goes on to the remaining companies: a run that returned
\* has scanned every company that passed the liquidity filter.
C13_ShortHistorySkipped ==
    /\ \A k \in 1..Len(scanned) :
          ShortAt(k) =>
              /\ ~(pc = "raised" /\ k = Len(scanned))
              /\ N(scanned[k]) \notin SymbolsOf(passing_stocks)
    /\ (pc = "done" /\ (\E k \in 1..Len(scanned) : ShortAt(k))) =>
          Range(scanned) = DOMAIN price_df

\* a run has returned in which the first company scanned had fewer bars than
\* the minimum, and the company scanned after it matched
C13_Witness ==
    /\ pc = "done"
    /\ Len(scanned) = 2
    /\ ShortAt(1) /\ Len(price_df[scanned[1]]) >= 2
    /\ ~ShortAt(2)
    /\ ResultSymbols = {N(scanned[2])}


\* ---------------------------------------------------------------------------
\* An exception in scan_company
\* ---------------------------------------------------------------------------

\* the loop is at a company for which scan_company raises
RaisesNext ==
    /\ pc = "loop"
    /\ todo # <<>>
    /\ Head(todo) \in DOMAIN candidate_map
    /\ candidate_map[Head(todo)] # <<>>
    /\ ScanCompany(scanner, price_df[Head(todo)], candidate_map[Head(todo)]).out = "raise"

\* C14: an exception of scan_company for one company is not isolated: the
\* step at that company ends the run with the exception (pc "raised"), no
\* table is returned (the records collected so far are not turned into a
\* result), and no step follows: the companies still in todo are never
\* evaluated.
C14_ExceptionPropagates ==
    [][/\ pc # "raised"
       /\ RaisesNext =>
             /\ pc' = "raised"
             /\ result' = NoResult
             /\ scanned' = Append(scanned, Head(todo))
             /\ passing_stocks' = passing_stocks]_vars

\* scan_company raised at the first company scanned and a company that
\* passed the liquidity filter was left unevaluated
C14_Witness ==
    /\ pc = "raised"
    /\ Len(scanned) = 1
    /\ todo # <<>>
    /\ Head(todo) \in DOMAIN candidate_map
    /\ result = NoResult


\* ---------------------------------------------------------------------------
\* One row per matching company
\* ---------------------------------------------------------------------------

\* the candidates that have bars in the window and pass the liquidity filter
LiquidCandidates ==
    {id \in CompanyIds : /\ IsCandidate(id)
                         /\ WindowBars(id) # <<>>
                         /\ ~Lt(RecentAvgVolume(id), VolumeFloor)}

\* scan_company, given the frame of the run and the snapshot of the store,
\* returns a record for the company
Matches(id) ==
    /\ id \in DOMAIN price_df
    /\ ScanCompany(scanner, price_df[id], object_as_dict(company[id])).out = "match"

\* the number of rows of the returned table that belong to a company
RowsOf(id) ==
    IF "symbol" \in Range(result.columns)
    THEN Cardinality({i \in 1..Len(result.rows) : result.rows[i]["symbol"] = N(id)})
    ELSE 0

\* C15: scan_company is invoked at most once per company and only for
\* candidates that have bars and pass the liquidity filter; when the run has
\* returned it was invoked for each of them, and the table holds exactly one
\* row for each company whose call returned a record and no row for any
\* other company (none outside the candidate set).
C15_OneRowPerMatch ==
    /\ \A i, j \in 1..Len(scanned) : scanned[i] = scanned[j] => i = j
    /\ Range(scanned) \subseteq LiquidCandidates
    /\ pc = "done" =>
          /\ Range(scanned) = LiquidCandidates
          /\ \A id \in CompanyIds :
                RowsOf(id) = IF id \in LiquidCandidates /\ Matches(id) THEN 1 ELSE 0
          /\ Len(result.rows) = Cardinality({id \in LiquidCandidates : Matches(id)})

\* a run has returned one row after scanning two companies, one of which
\* did not match
C15_Witness ==
    /\ pc = "done"
    /\ Len(scanned) = 2
    /\ Len(result.rows) = 1
    /\ \E id \in Range(scanned) : ~Matches(id)


\* ---------------------------------------------------------------------------
\* A constant close and the crossover scanners
\* ---------------------------------------------------------------------------

\* crossover_lookback_days of the calls on constant closes
FlatLookbacks == {0, 1, 2, 5, 10}

\* the number of bars of the constant histories
FlatLengths == {1, 199, 200, 201, 205, 210, 250}

\* the constant close
FlatPrices == {1, 50}

\* <<scanner instances, price history>>: both crossover scanners on a
\* constant close, and on a flat stretch that ends with a move
FlatCases ==
    {<< <<[kind |-> "golden_cross",
           params |-> BaseParams(2, 1) @@ [crossover_lookback_days |-> lb]],
          [kind |-> "death_cross",
           params |-> BaseParams(2, 1) @@ [crossover_lookback_days |-> lb]]>>,
        History(Flat(n, 3), Flat(n, c), 0) >> :
            lb \in FlatLookbacks, n \in FlatLengths, c \in FlatPrices}
    \cup
    {<< <<[kind |-> "golden_cross", params |-> BaseParams(2, 1)],
          [kind |-> "death_cross", params |-> BaseParams(2, 1)]>>,
        LongHistory(tail) >> : tail \in {<<101>>, <<99>>}}

InitFlat ==
    /\ \E case \in FlatCases :
          /\ h_scanners = case[1]
          /\ h_group = GroupOf(case[2], case[1][1].params)
    /\ h_info = [k \in 1..Len(h_scanners) |-> object_as_dict(StdRow(1))]
    /\ h_log = [k \in 1..Len(h_scanners) |-> <<>>]
    /\ OtherIdle
    /\ pc = "harness"
    /\ company = <<>>
    /\ price_history = <<>>
    /\ scanner = [kind |-> "custom", params |-> BaseParams(2, 1)]
    /\ candidate_map = <<>>
    /\ price_df = <<>>
    /\ todo = <<>>
    /\ scanned = <<>>
    /\ passing_stocks = <<>>
    /\ result = NoResult

SpecFlat == InitFlat /\ [][NextPure]_vars

\* the close of every bar of the frame is the same
ConstantClose(group) ==
    \A i \in 1..Len(group) : group[i].close = group[1].close

\* C16: on a frame whose close is constant, every call of scan_company of
\* GoldenCrossScanner and of DeathCrossScanner returns none, whatever
\* crossover_lookback_days is.
C16_ConstantCloseNoCross ==
    ConstantClose(h_group) =>
        \A k \in 1..Len(h_scanners) :
            h_scanners[k].kind \in {"golden_cross", "death_cross"} =>
                \A c \in 1..Len(h_log[k]) : h_log[k][c].out = "none"

\* both scanners were called on a constant close long enough for both
\* averages to exist at every examined bar
C16_Witness ==
    /\ ConstantClose(h_group)
    /\ Len(h_scanners) = 2
    /\ Len(h_group) >=
          201 + ParamGet(h_scanners[1].params, "crossover_lookback_days", 5)
    /\ ~IsNull(SMA(Closes(h_group), 200, Len(h_group)))
    /\ h_log[1] # <<>> /\ h_log[2] # <<>>
    /\ h_scanners[1].kind = "golden_cross" /\ h_scanners[2].kind = "death_cross"


\* ---------------------------------------------------------------------------
\* The SMA and EMA filters of GenericScreener at close = average
\* ---------------------------------------------------------------------------

\* the op of an average filter: the words of the filter specification and
\* the symbols the filter form sends for "Above" and "Below"
AverageOps == {"above", "below", ">", "<"}

\* the periods of the average filters
AveragePeriods == {2, 3}

\* closes at, below and above their average, and a frame shorter than the
\* period
AverageCloses == {<<5, 5, 5>>, <<50, 50, 50, 50>>, <<7, 6, 5>>, <<5, 6, 7>>, <<5>>}

\* <<scanner instances, price history>>: one GenericScreener with one
\* average filter
AverageCases ==
    {<< <<[kind |-> "generic",
           params |-> BaseParams(2, 1) @@
                      [filters |-> <<Filter(name, op, VMap([period |-> period]))>>]]>>,
        History(Flat(Len(c), 3), c, 0) >> :
            name \in {"sma", "ema"}, op \in AverageOps, period \in AveragePeriods,
            c \in AverageCloses}

InitAverage ==
    /\ \E case \in AverageCases :
          /\ h_scanners = case[1]
          /\ h_group = GroupOf(case[2], case[1][1].params)
    /\ h_info = [k \in 1..Len(h_scanners) |-> object_as_dict(StdRow(1))]
    /\ h_log = [k \in 1..Len(h_scanners) |-> <<>>]
    /\ OtherIdle
    /\ pc = "harness"
    /\ company = <<>>
    /\ price_history = <<>>
    /\ scanner = [kind |-> "custom", params |-> BaseParams(2, 1)]
    /\ candidate_map = <<>>
    /\ price_df = <<>>
    /\ todo = <<>>
    /\ scanned = <<>>
    /\ passing_stocks = <<>>
    /\ result = NoResult

SpecAverage == InitAverage /\ [][NextPure]_vars

\* the filter of the k-th scanner instance
AverageFilter(k) == ParamGet(h_scanners[k].params, "filters", <<>>)[1]

\* the latest close of the frame
LatestClose == Closes(h_group)[Len(h_group)]

\* the latest value of the average the filter of the k-th instance names
LatestAverage(k) ==
    LET f == AverageFilter(k)
        period == SubParam(f.value, "period", 20)
    IN  IF f.name = "sma" THEN SMA(Closes(h_group), period, Len(h_group))
        ELSE EMA(Closes(h_group), period, Len(h_group))

\* C17: with the latest close equal to the latest average, every evaluation
\* of an SMA or EMA filter with op above or below ends as a non-match and
\* does not raise; an evaluation with op below matches only if the close is
\* strictly below the average.
C17_EqualIsNeither ==
    \A k \in 1..Len(h_scanners) :
        LET f == AverageFilter(k)
        IN  (f.op \in AverageOps /\ NotNull(LatestAverage(k))) =>
                \A c \in 1..Len(h_log[k]) :
                    /\ Eq(LatestClose, LatestAverage(k)) => h_log[k][c].out = "none"
                    /\ (f.op \in {"below", "<"} /\ h_log[k][c].out = "match") =>
                           Lt(LatestClose, LatestAverage(k))


\* ---------------------------------------------------------------------------
\* A linear rise that ends with a drop on heavy volume
\* ---------------------------------------------------------------------------

\* n - 1 bars of volume 3 rising by step to peak with high = low = close,
\* then one bar from peak down to low that closes 20% lower
ClimaxHistory(n, peak, step, low, volume) ==
    [i \in 1..n |->
        IF i < n
        THEN LET c == peak - (n - 1 - i) * step
             IN  Bar(Today - (n - i), c, c, c, c, 3, 1)
        ELSE Bar(Today, peak, peak, low, (peak * 4) \div 5, volume, 1)]

\* <<scanner instances, price history>>: the three detectors with their
\* default parameters on the series rising to 1250; the last bar closes at
\* 1000, which is 9% or 0% of its
\* range (low 975, 1000) or above the middle (low 700); its volume is five
\* times the average of the 20 bars before it (15) or of the 20 bars that
\* end with it (19)
ClimaxCases ==
    {<< <<[kind |-> "new_lows", params |-> BaseParams(2, 1)],
          [kind |-> "selling_climax", params |-> BaseParams(2, 1)],
          [kind |-> "new_highs", params |-> BaseParams(2, 1)]>>,
        ClimaxHistory(n, 1250, step, low, volume) >> :
            n \in {252, 254}, step \in {1, 4}, low \in {975, 1000, 700}, volume \in {15, 19}}

InitClimax ==
    /\ \E case \in ClimaxCases :
          /\ h_scanners = case[1]
          /\ h_group = GroupOf(case[2], case[1][1].params)
    /\ h_info = [k \in 1..Len(h_scanners) |-> object_as_dict(StdRow(1))]
    /\ h_log = [k \in 1..Len(h_scanners) |-> <<>>]
    /\ OtherIdle
    /\ pc = "harness"
    /\ company = <<>>
    /\ price_history = <<>>
    /\ scanner = [kind |-> "custom", params |-> BaseParams(2, 1)]
    /\ candidate_map = <<>>
    /\ price_df = <<>>
    /\ todo = <<>>
    /\ scanned = <<>>
    /\ passing_stocks = <<>>
    /\ result = NoResult

SpecClimax == InitClimax /\ [][NextPure]_vars

\* the frame is the series of the scenario: 252 bars, the first 251 rising
\* by a constant step, the last closing 20% below the bar before it, in the
\* bottom 10% of its range, on five times the 20-bar average volume
ClimaxScenario ==
    LET n == Len(h_group)
        close == Closes(h_group)
        volume == [j \in 1..n |-> h_group[j].volume]
        Diff(i) == RAdd(close[i], RMul(N(-1), close[i - 1]))
        last == h_group[n]
        range == RAdd(last.high, RMul(N(-1), last.low))
    IN  /\ n = 252
        /\ Gt(Diff(2), N(0))
        /\ \A i \in 2..(n - 1) : Eq(Diff(i), Diff(2))
        /\ Eq(close[n], RMul(close[n - 1], Rat(4, 5)))
        /\ \/ Eq(volume[n], RMul(N(5), SMA(volume, 20, n - 1)))
           \/ Eq(volume[n], RMul(N(5), SMA(volume, 20, n)))
        /\ Gt(range, N(0))
        /\ Le(RMul(RAdd(last.close, RMul(N(-1), last.low)), N(10)), range)

\* the k-th scanner instance was called and its first call returned out
FirstCall(k, out) == h_log[k] # <<>> /\ h_log[k][1].out = out

\* C18: on the series of the scenario NewLowsScanner or
\* SellingClimaxScanner, called with default parameters, returns a record,
\* and NewHighsScanner returns none.
C18_ClimaxScenarioMatches ==
    (ClimaxScenario /\ \A k \in 1..3 : h_log[k] # <<>>) =>
        /\ FirstCall(1, "match") \/ FirstCall(2, "match")
        /\ FirstCall(3, "none")


\* ---------------------------------------------------------------------------
\* The trailing bars a detector examines
\* ---------------------------------------------------------------------------

\* the lookback parameter of a detector instance, 2 when it is not given
LookbackOf(sc) ==
    IF sc.kind \in {"golden_cross", "death_cross"}
    THEN ParamGet(sc.params, "crossover_lookback_days", 2)
    ELSE ParamGet(sc.params, "setup_lookback_days", 2)

\* the date a returned record reports
ReportedDate(sc, ret) ==
    IF sc.kind \in {"golden_cross", "death_cross"} THEN DictGet(ret, "crossover_date")
    ELSE IF sc.kind = "selling_climax" THEN DictGet(ret, "climax_date")
    ELSE DictGet(ret, "setup_date")

\* the offsets from the latest bar (1 = the latest) of the bars of the frame
\* that carry the reported date
ReportedOffsets(sc, ret) ==
    {i \in 1..Len(h_group) : N(h_group[Len(h_group) - i + 1].date) = ReportedDate(sc, ret)}

Detectors == {"golden_cross", "death_cross", "new_highs", "new_lows", "selling_climax"}

\* C19: the bar a detector reports is one of the trailing bars its lookback
\* parameter gives: a returned record carries the date of a bar whose
\* offset from the latest bar is at most the lookback.
C19_TrailingSetOnly ==
    \A k \in 1..Len(h_scanners) :
        h_scanners[k].kind \in Detectors =>
            \A c \in 1..Len(h_log[k]) :
                h_log[k][c].out = "match" =>
                    \A i \in ReportedOffsets(h_scanners[k], h_log[k][c].ret) :
                        i <= LookbackOf(h_scanners[k])


\* ---------------------------------------------------------------------------
\* The liquidity filter in every scanner
\* ---------------------------------------------------------------------------

\* the company has bars in the window and their recent average volume is
\* below min_avg_volume
BelowVolumeFloor(id) ==
    /\ WindowBars(id) # <<>>
    /\ Lt(RecentAvgVolume(id), VolumeFloor)

\* C20: whatever the scanner, the table run_scan returns has no row of a
\* company whose recent average volume is below min_avg_volume.
C20_EveryScannerFiltersVolume ==
    pc = "done" =>
        \A id \in DOMAIN company : BelowVolumeFloor(id) => N(id) \notin ResultSymbols


\* ---------------------------------------------------------------------------
\* core/db.py: initialize_database_schema and _populate_exchange_table
\* ---------------------------------------------------------------------------

\* how many calls of initialize_database_schema a run makes
MaxInitCalls == 3

\* insert_scripts: the ids of the static rows, in order
insert_scripts ==
    <<10, 11, 12, 20, 21, 22, 23, 30, 40, 50, 60, 70, 80, 90, 100, 101, 110, 111, 120, 121,
      130, 140, 150, 151, 160, 170, 180, 190, 191, 200, 210, 220, 230, 240, 250, 260, 270,
      280, 290, 291, 292, 293, 294, 295, 296, 297, 300, 310, 320, 330, 340, 350, 360, 370,
      380, 381, 390, 400, 410, 420, 430, 440, 450, 460, 470, 471, 480, 490>>

ClosedSession == [open |-> FALSE, new |-> <<>>, flushed |-> 0]

\* initialize_database_schema(): create_all adds no row; db = SessionLocal()
InitializeCall ==
    /\ init_pc = "idle"
    /\ init_calls < MaxInitCalls
    /\ db' = [open |-> TRUE, new |-> <<>>, flushed |-> 0]
    /\ init_ok' = TRUE
    /\ init_pc' = "query"
    /\ UNCHANGED <<exchange_table, init_calls, exchange_first>>

\* the query without "if db.query(Exchange).first(): return"
PopulateQuery_NoCheck ==
    /\ init_pc = "query"
    /\ \/ /\ db' = [db EXCEPT !.new = insert_scripts]
          /\ init_pc' = "commit"
          /\ UNCHANGED init_ok
       \/ /\ init_pc' = "except"
          /\ init_ok' = FALSE
          /\ UNCHANGED db
    /\ UNCHANGED <<exchange_table, init_calls, exchange_first>>

\* if db.query(Exchange).first(): return; otherwise db.add of every static
\* row; the query may raise
PopulateQuery ==
    /\ init_pc = "query"
    /\ \/ /\ exchange_table # <<>>
          /\ init_pc' = "finally"
          /\ UNCHANGED <<db, init_ok>>
       \/ /\ exchange_table = <<>>
          /\ db' = [db EXCEPT !.new = insert_scripts]
          /\ init_pc' = "commit"
          /\ UNCHANGED init_ok
       \/ /\ init_pc' = "except"
          /\ init_ok' = FALSE
          /\ UNCHANGED db
    /\ UNCHANGED <<exchange_table, init_calls, exchange_first>>

\* a commit after every db.add: each row is committed as it is written
PopulateFlush_CommitEach ==
    /\ init_pc = "commit"
    /\ db.flushed < Len(db.new)
    /\ \/ /\ db' = [db EXCEPT !.flushed = @ + 1]
          /\ exchange_table' = Append(exchange_table, db.new[db.flushed + 1])
          /\ UNCHANGED <<init_pc, init_ok>>
       \/ /\ init_pc' = "except"
          /\ init_ok' = FALSE
          /\ UNCHANGED <<db, exchange_table>>
    /\ UNCHANGED <<init_calls, exchange_first>>

\* db.commit(), the flush: the INSERT of the next pending row inside the
\* transaction; it may raise
PopulateFlush ==
    /\ init_pc = "commit"
    /\ db.flushed < Len(db.new)
    /\ \/ /\ db' = [db EXCEPT !.flushed = @ + 1]
          /\ UNCHANGED <<init_pc, init_ok>>
       \/ /\ init_pc' = "except"
          /\ init_ok' = FALSE
          /\ UNCHANGED db
    /\ UNCHANGED <<exchange_table, init_calls, exchange_first>>

\* db.commit(), the COMMIT: the rows of the transaction become the table's;
\* it may raise
PopulateCommit ==
    /\ init_pc = "commit"
    /\ db.flushed = Len(db.new)
    /\ \/ /\ exchange_table' =
                exchange_table \o [i \in 1..db.flushed |-> db.new[i]]
          /\ db' = [db EXCEPT !.new = <<>>, !.flushed = 0]
          /\ init_pc' = "finally"
          /\ UNCHANGED init_ok
       \/ /\ init_pc' = "except"
          /\ init_ok' = FALSE
          /\ UNCHANGED <<db, exchange_table>>
    /\ UNCHANGED <<init_calls, exchange_first>>

\* except Exception: db.rollback(); print(...)
PopulateExcept ==
    /\ init_pc = "except"
    /\ db' = [db EXCEPT !.new = <<>>, !.flushed = 0]
    /\ init_pc' = "finally"
    /\ UNCHANGED <<exchange_table, init_ok, init_calls, exchange_first>>

\* finally: db.close(); the call returns
PopulateFinally ==
    /\ init_pc = "finally"
    /\ db' = ClosedSession
    /\ init_pc' = "idle"
    /\ init_calls' = init_calls + 1
    /\ exchange_first' = IF init_ok /\ exchange_first = <<"none">>
                         THEN <<"rows", exchange_table>> ELSE exchange_first
    /\ UNCHANGED <<exchange_table, init_ok>>

\* nothing of the scanners runs
ScannersIdle ==
    /\ company = <<>>
    /\ price_history = <<>>
    /\ scanner = [kind |-> "custom", params |-> BaseParams(2, 1)]
    /\ pc = "off"
    /\ candidate_map = <<>>
    /\ price_df = <<>>
    /\ todo = <<>>
    /\ scanned = <<>>
    /\ passing_stocks = <<>>
    /\ result = NoResult
    /\ h_scanners = <<>>
    /\ h_group = <<>>
    /\ h_info = <<>>
    /\ h_log = <<>>

\* a new database, or one whose exchange table is populated
InitDb ==
    /\ exchange_table \in {<<>>, insert_scripts}
    /\ db = ClosedSession
    /\ init_pc = "idle"
    /\ init_ok = TRUE
    /\ init_calls = 0
    /\ exchange_first = <<"none">>
    /\ ScannersIdle
    /\ BacktestIdle
    /\ PageIdle

NextDb ==
    /\ \/ InitializeCall
       \/ PopulateQuery
       \/ PopulateFlush
       \/ PopulateCommit
       \/ PopulateExcept
       \/ PopulateFinally
    /\ UNCHANGED <<company, price_history, scanner, pc>>
    /\ UNCHANGED <<rvars, hvars>>
    /\ UNCHANGED <<bvars, uvars>>

SpecDb == InitDb /\ [][NextDb]_vars

\* no id occurs twice in the table
NoDuplicateRows ==
    \A i, j \in 1..Len(exchange_table) : exchange_table[i] = exchange_table[j] => i = j

\* C21: the exchange table never holds a row twice and never holds a part of
\* the static rows: it is empty or holds all of them; once a call has
\* returned without an exception the table stays as that call left it; and
\* between calls the session is closed with nothing pending.
C21_InitializeIdempotent ==
    /\ NoDuplicateRows
    /\ exchange_table \in {<<>>, insert_scripts}
    /\ exchange_first # <<"none">> => exchange_table = exchange_first[2]
    /\ init_pc = "idle" => db = ClosedSession

\* three calls have returned, the table holds the static rows as the first
\* call without an exception left them, and the last call raised none
C21_Witness ==
    /\ init_pc = "idle"
    /\ init_calls = 3
    /\ exchange_first = <<"rows", insert_scripts>>
    /\ init_ok


\* ---------------------------------------------------------------------------
\* The split adjustment, bar by bar
\* ---------------------------------------------------------------------------

\* the product of the split coefficients of bar i of a company and of its
\* later bars in the window, a coefficient of 0 counted as 1
SplitDivisor(id, i) ==
    LET bars == WindowBars(id)
    IN  SeqProd([j \in 1..Len(bars) |->
                    IF bars[j].split_coefficient = N(0) THEN N(1)
                    ELSE bars[j].split_coefficient], i, Len(bars))

\* C22: in the fetched frame every bar of every company has its stored
\* open, high, low and close divided by the product of the split
\* coefficients of that bar and of the later bars of the same company (0
\* counted as 1), and its stored volume and adjusted close.
C22_SplitAdjustPerCompany ==
    pc = "adjusted" =>
        \A id \in DOMAIN price_df :
            /\ Len(price_df[id]) = Len(WindowBars(id))
            /\ \A i \in 1..Len(price_df[id]) :
                   LET raw == WindowBars(id)[i]
                       adj == price_df[id][i]
                   IN  /\ adj.open = RDiv(raw.open, SplitDivisor(id, i))
                       /\ adj.high = RDiv(raw.high, SplitDivisor(id, i))
                       /\ adj.low = RDiv(raw.low, SplitDivisor(id, i))
                       /\ adj.close = RDiv(raw.close, SplitDivisor(id, i))
                       /\ adj.volume = raw.volume
                       /\ adj.adjclose = raw.adjclose

\* a fetched frame of two companies: one with a coefficient of 0 on a bar
\* that is followed by a split, the other, sorted after it, with a split of
\* its own
C22_Witness ==
    /\ pc = "adjusted"
    /\ \E id \in DOMAIN price_df :
          /\ \E i \in 1..(Len(WindowBars(id)) - 1) :
                /\ WindowBars(id)[i].split_coefficient = N(0)
                /\ WindowBars(id)[i + 1].split_coefficient = N(2)
                /\ price_df[id][i].close = RDiv(WindowBars(id)[i].close, N(2))
          /\ \E other \in DOMAIN price_df :
                /\ other > id
                /\ WindowBars(other)[1].split_coefficient = N(2)

\* ---------------------------------------------------------------------------
\* Technical filters on short frames: every filter kind of _apply_tech_filter
\* with the operators the scanner page produces, on frames too short for the
\* indicator, just long enough, and longer.

TechCloses == {<<10, 12, 11, 15, 9, 14>>, <<10, 10, 10, 10, 10, 10>>}

\* a frame whose bars range one unit around their close
OHLCHistory(closes) ==
    [i \in 1..Len(closes) |->
        Bar(Today - (Len(closes) - i), closes[i], closes[i] + 1, closes[i] - 1,
            closes[i], 3, 1)]

IndicatorFilters ==
    {Filter(name, op, VMap([period |-> 3])) : name \in {"sma", "ema"}, op \in {">", "<"}}
    \cup {Filter("rsi", op, VMap(m)) :
             op \in {">", "<"}, m \in {[period |-> 2], [period |-> 2, value |-> N(50)]}}
    \cup {Filter("macd", op, VMap([fastperiod |-> 2, slowperiod |-> 3, signalperiod |-> 2])) :
             op \in {"cross_above", "cross_below"}}
    \cup {Filter("stoch", op, VMap(m)) :
             op \in {"cross_above", "cross_below", "above", "below"},
             m \in {[fastk_period |-> 2, slowk_period |-> 2, slowd_period |-> 2],
                    [fastk_period |-> 2, slowk_period |-> 2, slowd_period |-> 2,
                     value |-> N(50)]}}
    \cup {Filter("bbands", op, VMap([period |-> 3, nbdevup |-> N(1), nbdevdn |-> N(1)])) :
             op \in {"cross_above_upper", "cross_below_lower"}}

TechCases ==
    {<< <<[kind |-> "generic", params |-> BaseParams(2, 1) @@ [filters |-> <<f>>]]>>,
        OHLCHistory(SubSeq(c, 1, n)) >> :
            f \in IndicatorFilters, c \in TechCloses, n \in 1..6}

InitTech ==
    /\ \E case \in TechCases :
          /\ h_scanners = case[1]
          /\ h_group = GroupOf(case[2], case[1][1].params)
    /\ h_info = [k \in 1..Len(h_scanners) |-> object_as_dict(StdRow(1))]
    /\ h_log = [k \in 1..Len(h_scanners) |-> <<>>]
    /\ OtherIdle
    /\ pc = "harness"
    /\ company = <<>>
    /\ price_history = <<>>
    /\ scanner = [kind |-> "custom", params |-> BaseParams(2, 1)]
    /\ candidate_map = <<>>
    /\ price_df = <<>>
    /\ todo = <<>>
    /\ scanned = <<>>
    /\ passing_stocks = <<>>
    /\ result = NoResult

SpecTech == InitTech /\ [][NextPure]_vars

\* the first bar at which the filter's indicator is a number
FirstValidBar(f) ==
    CASE f.name \in {"sma", "ema", "bbands"} -> SubParam(f.value, "period", 20)
      [] f.name = "rsi" -> SubParam(f.value, "period", 14) + 1
      [] f.name = "macd" -> SubParam(f.value, "slowperiod", 26)
                            + SubParam(f.value, "signalperiod", 9) - 1
      [] f.name = "stoch" -> SubParam(f.value, "fastk_period", 14)
                             + SubParam(f.value, "slowk_period", 3)
                             + SubParam(f.value, "slowd_period", 3) - 2

\* the filter reads a threshold and the configuration carries none
ThresholdMissing(f) ==
    /\ \/ f.name = "rsi"
       \/ f.name = "stoch" /\ f.op \in {"above", "below"}
    /\ IsNull(SubParam(f.value, "value", Null))

\* the indicator is NaN on a bar the filter reads: the latest bar, or the
\* previous bar for a crossover test
IndicatorMissing(f, group) ==
    \/ Len(group) < FirstValidBar(f)
    \/ /\ f.op \in {"cross_above", "cross_below"}
       /\ Len(group) - 1 < FirstValidBar(f)

IndicatorFilter == ParamGet(h_scanners[1].params, "filters", <<>>)[1]

\* C23: a technical filter of any kind (sma, ema, rsi, macd, stoch, bbands)
\* whose indicator is NaN on a bar it reads, or whose threshold is missing,
\* makes the company a non-match: the call neither matches nor raises.
C23_IndicatorFiltersFailClosed ==
    (IndicatorMissing(IndicatorFilter, h_group) \/ ThresholdMissing(IndicatorFilter)) =>
        \A i \in 1..Len(h_log[1]) : h_log[1][i].out = "none"

\* the same statement without the stochastic level test on a missing threshold
C23_FailClosedButStochLevel ==
    /\ IndicatorMissing(IndicatorFilter, h_group) \/ ThresholdMissing(IndicatorFilter)
    /\ ~(IndicatorFilter.name = "stoch" /\ ThresholdMissing(IndicatorFilter)
         /\ ~IndicatorMissing(IndicatorFilter, h_group))
    => \A i \in 1..Len(h_log[1]) : h_log[1][i].out = "none"

\* ---------------------------------------------------------------------------
\* RSI divergence: frames of 200 flat bars and more, closed by four bars of
\* four shapes, scanned by both divergence scanners.

\* <<high, low, close>> of a closing bar: falling, a lower low that closes
\* up, a long tail that closes high, a higher high that closes down
TailShapes == {<<100, 96, 97>>, <<99, 94, 98>>, <<104, 93, 103>>, <<106, 101, 102>>}

DivergenceHistory(base, tail) ==
    [i \in 1..(base + Len(tail)) |->
        IF i <= base THEN Bar(Today - (base + Len(tail) - i), 100, 101, 99, 100, 3, 1)
        ELSE Bar(Today - (base + Len(tail) - i), tail[i - base][3], tail[i - base][1],
                 tail[i - base][2], tail[i - base][3], 3, 1)]

DivergenceParams ==
    BaseParams(2, 1) @@ [rsi_period |-> 1, divergence_lookback |-> 3, setup_lookback_days |-> 3]

DivergenceCases ==
    {<< <<[kind |-> "bullish_rsi_divergence", params |-> DivergenceParams],
          [kind |-> "bearish_rsi_divergence", params |-> DivergenceParams]>>,
        DivergenceHistory(base, tail) >> :
            base \in {196, 200},
            tail \in {t \in [1..4 -> TailShapes] : t[1][3] \in {97, 103}}}

InitDivergence ==
    /\ \E case \in DivergenceCases :
          /\ h_scanners = case[1]
          /\ h_group = GroupOf(case[2], case[1][1].params)
    /\ h_info = [k \in 1..Len(h_scanners) |-> object_as_dict(StdRow(1))]
    /\ h_log = [k \in 1..Len(h_scanners) |-> <<>>]
    /\ OtherIdle
    /\ pc = "harness"
    /\ company = <<>>
    /\ price_history = <<>>
    /\ scanner = [kind |-> "custom", params |-> BaseParams(2, 1)]
    /\ candidate_map = <<>>
    /\ price_df = <<>>
    /\ todo = <<>>
    /\ scanned = <<>>
    /\ passing_stocks = <<>>
    /\ result = NoResult

SpecDivergence == InitDivergence /\ [][NextPure]_vars

\* the bars at which scanner k reported a divergence
DivergenceBars(k) ==
    {d \in 1..Len(h_group) :
        \E c \in 1..Len(h_log[k]) :
            /\ h_log[k][c].out = "match"
            /\ DictGet(h_log[k][c].ret, "divergence_date") = N(h_group[d].date)}

\* price makes a new low at bar d against the lookback bars before it while
\* the RSI at d is above the RSI of a bar of that lowest low, below the SMA200
BullishAt(d, params) ==
    LET lookback == ParamGet(params, "divergence_lookback", 30)
        close == Closes(h_group)
        rsi(j) == RSI(close, ParamGet(params, "rsi_period", 14), j)
    IN  /\ d > lookback
        /\ \A j \in (d - lookback)..(d - 1) : Lt(h_group[d].low, h_group[j].low)
        /\ \E j \in (d - lookback)..(d - 1) :
              /\ \A k \in (d - lookback)..(d - 1) : Le(h_group[j].low, h_group[k].low)
              /\ Gt(rsi(d), rsi(j))
        /\ Lt(close[d], SMA(close, 200, d))

\* the mirror image: a new high, a lower RSI, above the SMA200
BearishAt(d, params) ==
    LET lookback == ParamGet(params, "divergence_lookback", 30)
        close == Closes(h_group)
        rsi(j) == RSI(close, ParamGet(params, "rsi_period", 14), j)
    IN  /\ d > lookback
        /\ \A j \in (d - lookback)..(d - 1) : Gt(h_group[d].high, h_group[j].high)
        /\ \E j \in (d - lookback)..(d - 1) :
              /\ \A k \in (d - lookback)..(d - 1) : Ge(h_group[j].high, h_group[k].high)
              /\ Lt(rsi(d), rsi(j))
        /\ Gt(close[d], SMA(close, 200, d))

SpringShapes ==
    {<<101, 97, 100, 3>>, <<103, 97, 100, 3>>, <<101, 97, 98, 3>>, <<105, 97, 100, 3>>,
     <<101, 97, 100, 9>>, <<98, 98, 98, 3>>}

SpringHistory(base, spread, tail) ==
    [i \in 1..(base + Len(tail)) |->
        IF i <= base
        THEN Bar(Today - (base + Len(tail) - i), 100, 100 + spread, 100 - spread, 100, 3, 1)
        ELSE Bar(Today - (base + Len(tail) - i), tail[i - base][3], tail[i - base][1],
                 tail[i - base][2], tail[i - base][3], tail[i - base][4], 1)]

SpringCases ==
    {<< <<[kind |-> "wyckoff_spring",
           params |-> BaseParams(2, 1) @@
                      [support_period |-> 3, max_box_height_pct |-> N(box),
                       setup_lookback_days |-> 2]]>>,
        SpringHistory(base, spread, tail) >> :
            box \in {2, 10}, base \in {48, 50}, spread \in {0, 1},
            tail \in [1..2 -> SpringShapes]}

InitSpring ==
    /\ \E case \in SpringCases :
          /\ h_scanners = case[1]
          /\ h_group = GroupOf(case[2], case[1][1].params)
    /\ h_info = [k \in 1..Len(h_scanners) |-> object_as_dict(StdRow(1))]
    /\ h_log = [k \in 1..Len(h_scanners) |-> <<>>]
    /\ OtherIdle
    /\ pc = "harness"
    /\ company = <<>>
    /\ price_history = <<>>
    /\ scanner = [kind |-> "custom", params |-> BaseParams(2, 1)]
    /\ candidate_map = <<>>
    /\ price_df = <<>>
    /\ todo = <<>>
    /\ scanned = <<>>
    /\ passing_stocks = <<>>
    /\ result = NoResult

SpecSpring == InitSpring /\ [][NextPure]_vars

\* the bars the spring scanner reported
SpringBars ==
    {d \in 1..Len(h_group) :
        \E c \in 1..Len(h_log[1]) :
            /\ h_log[1][c].out = "match"
            /\ DictGet(h_log[1][c].ret, "spring_date") = N(h_group[d].date)}

\* bar d pierces the low of a tight range of the support_period bars before
\* it and closes back above, high in its own range, on light volume
SpringAt(d, params) ==
    LET period == ParamGet(params, "support_period", 60)
        bars == (d - period)..(d - 1)
        g == h_group
        Minus(a, b) == RAdd(a, RMul(N(-1), b))
        volumes == [j \in 1..Len(g) |-> g[j].volume]
    IN  /\ d > period
        /\ \E lo \in bars, hi \in bars :
              /\ \A j \in bars : Le(g[lo].low, g[j].low) /\ Ge(g[hi].high, g[j].high)
              /\ Gt(g[lo].low, N(0))
              /\ Gt(Minus(g[hi].high, g[lo].low), N(0))
              \* (high - low) / low * 100 < max_box_height_pct
              /\ Lt(RMul(Minus(g[hi].high, g[lo].low), N(100)),
                    RMul(ParamGet(params, "max_box_height_pct", N(10)), g[lo].low))
              /\ Lt(g[d].low, g[lo].low) /\ Gt(g[d].close, g[lo].low)
        /\ Lt(g[d].volume,
              RMul(ParamGet(params, "max_volume_ratio", Rat(6, 5)), SMA(volumes, 20, d)))
        /\ Gt(g[d].high, g[d].low)
        /\ Ge(RMul(Minus(g[d].close, g[d].low), N(100)),
              RMul(ParamGet(params, "min_close_position_pct", N(50)),
                   Minus(g[d].high, g[d].low)))

\* C25: the Wyckoff spring scanner reports bar d only if the range of the
\* support_period bars before d has a height strictly between 0 and
\* max_box_height_pct percent, low[d] is below the range low and close[d]
\* above it, the volume of d over its 20-bar average is below
\* max_volume_ratio and the close of d lies at or above
\* min_close_position_pct of the bar's range; a bar without range is never reported.
C25_SpringNeedsTightRangeAndRecovery ==
    \A d \in SpringBars :
        /\ SpringAt(d, h_scanners[1].params)
        /\ ~Eq(h_group[d].high, h_group[d].low)

\* the scanner has reported a spring at the latest bar, whose close lies
\* exactly at half of its range
C25_Witness ==
    /\ Len(h_group) \in SpringBars
    /\ h_group[Len(h_group)].high = N(103)

\* ---------------------------------------------------------------------------
\* The backtest page: the loop over the trading days of the chosen range,
\* run_all_scanners on the data up to each day, and the trade accounting.
\* Dates are day numbers, day 1 a Monday.

\* the symbols of daily_prices, in the order of the dictionary of get_all_data
Symbols == <<"AAA", "BBB">>

BtBar(date, open, close, volume) ==
    [date |-> date, open |-> N(open), close |-> N(close), volume |-> N(volume),
     high |-> N(IF open > close THEN open ELSE close),
     low |-> N(IF open > close THEN close ELSE open)]

\* round(x, 1) of a number: to the nearest tenth, ties to the even digit
Round1(x) ==
    LET num == x[1] * 10
        q == num \div x[2]
        r == num % x[2]
    IN  IF 2 * r > x[2] \/ (2 * r = x[2] /\ q % 2 = 1) THEN Rat(q + 1, 10) ELSE Rat(q, 10)

\* the rows [symbol, key] of the symbols that hit, in the order of data.items()
SignalRows(hit, key) ==
    LET syms == SelectSeq(Symbols, LAMBDA s : s \in DOMAIN hit /\ hit[s])
    IN  [i \in 1..Len(syms) |-> [symbol |-> syms[i], key |-> key[syms[i]]]]

\* df.sort_values(key, ascending=False).head(n)
TopRows(rows, n) ==
    LET Pos(i) == Cardinality({j \in 1..Len(rows) : Gt(rows[j].key, rows[i].key)})
                  + Cardinality({j \in 1..(i - 1) : rows[j].key = rows[i].key}) + 1
        sorted == [p \in 1..Len(rows) |-> rows[CHOOSE i \in 1..Len(rows) : Pos(i) = p]]
    IN  SubSeq(sorted, 1, IF Len(rows) < n THEN Len(rows) ELSE n)

\* === 1. Low Float Moonshot ===
LowFloatRows(data) ==
    LET n(s) == Len(data[s])
        volume(s) == [i \in 1..n(s) |-> data[s][i].volume]
        avg(s) == SMA(volume(s), 20, n(s) - 1)
        vol_x(s) == RDiv(data[s][n(s)].volume, avg(s))
        hit == [s \in DOMAIN data |->
                   /\ n(s) >= 30 /\ ~Gt(data[s][n(s)].close, N(25))
                   /\ ~Le(avg(s), N(0))
                   /\ Gt(vol_x(s), N(8))]
    IN  TopRows(SignalRows(hit, [s \in DOMAIN data |-> IF hit[s] THEN Round1(vol_x(s)) ELSE Null]), 20)

\* === 2. RSI Oversold Bounce ===: a frame shorter than 40 bars is skipped;
\* defined for data whose frames are all shorter
RsiBounceRows(data) ==
    SignalRows([s \in DOMAIN data |-> Len(data[s]) >= 40 /\ FALSE], [s \in DOMAIN data |-> Null])

\* === 3. Gap Up Runner ===
GapUpRows(data) ==
    LET n(s) == Len(data[s])
        gap_pct(s) == RMul(RAdd(RDiv(data[s][n(s)].open, data[s][n(s) - 1].close), N(-1)), N(100))
        hit == [s \in DOMAIN data |->
                   /\ n(s) >= 2
                   /\ Gt(gap_pct(s), N(8))
                   /\ Gt(data[s][n(s)].close, data[s][n(s)].open)]
    IN  TopRows(SignalRows(hit, [s \in DOMAIN data |-> IF hit[s] THEN Round1(gap_pct(s)) ELSE Null]), 20)

\* === 4. First Red Day Dip Buy ===
FirstRedDayRows(data) ==
    LET n(s) == Len(data[s])
        hit == [s \in DOMAIN data |->
                   /\ n(s) >= 4
                   /\ Gt(data[s][n(s) - 3].close, RMul(data[s][n(s) - 3].open, Rat(5, 4)))
                   /\ Lt(data[s][n(s)].close, data[s][n(s)].open)
                   /\ Gt(data[s][n(s)].close, RMul(data[s][n(s)].open, Rat(22, 25)))]
        rows == SignalRows(hit, [s \in DOMAIN data |-> Null])
    IN  SubSeq(rows, 1, IF Len(rows) < 20 THEN Len(rows) ELSE 20)

\* === 5. Parabolic Short ===
ParabolicRows(data) ==
    LET n(s) == Len(data[s])
        hit == [s \in DOMAIN data |->
                   /\ n(s) >= 8
                   /\ \A i \in (n(s) - 7)..n(s) : Gt(data[s][i].close, data[s][i].open)
                   /\ Gt(data[s][n(s)].close, RMul(data[s][n(s) - 7].close, Rat(11, 5)))]
        pct(s) == RMul(RAdd(RDiv(data[s][n(s)].close, data[s][n(s) - 7].close), N(-1)), N(100))
    IN  TopRows(SignalRows(hit, [s \in DOMAIN data |-> IF hit[s] THEN Round1(pct(s)) ELSE Null]), 15)

\* run_all_scanners(data): the strategies with a signal, name and rows
run_all_scanners(data) ==
    SelectSeq(<< <<"1. Low Float Moonshot (>8x vol)", LowFloatRows(data)>>,
                 <<"2. RSI Oversold Bounce", RsiBounceRows(data)>>,
                 <<"3. Gap Up >8%", GapUpRows(data)>>,
                 <<"4. First Red Day Dip", FirstRedDayRows(data)>>,
                 <<"5. Parabolic Short", ParabolicRows(data)>> >>,
              LAMBDA e : e[2] # <<>>)

\* Index.get_slice_bound(label, side) on a sorted index: the position, from
\* 0, of the left or right bound of label; any other side is a ValueError
get_slice_bound(index, label, side) ==
    IF side = "left" THEN <<"ok", Cardinality({i \in 1..Len(index) : index[i] < label})>>
    ELSE IF side = "right" THEN <<"ok", Cardinality({i \in 1..Len(index) : index[i] <= label})>>
    ELSE <<"raise">>

\* the handling of one signal row that counts a skipped signal as a flat trade
ProcessRow_CountSkipped(data, date, sym, acc) ==
    <<Append(acc[1], N(0)), acc[2]>>

\* the body of the loop over sig_df.iterrows(): acc is <<results[strat_name],
\* equity[strat_name]>>
ProcessRow(data, date, sym, acc) ==
    LET price_series == [i \in 1..Len(data[sym]) |-> data[sym][i].close]
        index == [i \in 1..Len(data[sym]) |-> data[sym][i].date]
        bound == get_slice_bound(index, date, "pad")
    IN  IF bound[1] = "raise" THEN acc   \* except: continue
        ELSE LET entry_idx == bound[2]
                 exit_idx == entry_idx + 5
             IN  IF entry_idx >= Len(price_series) \/ exit_idx >= Len(price_series) THEN acc
                 ELSE LET entry_price == price_series[entry_idx + 1]
                          exit_price == price_series[exit_idx + 1]
                          pnl_pct == RMul(RAdd(RDiv(exit_price, entry_price), N(-1)), N(100))
                          last_equity == acc[2][Len(acc[2])]
                      IN  <<Append(acc[1], pnl_pct),
                            Append(acc[2], RMul(last_equity, RAdd(N(1), RDiv(pnl_pct, N(100)))))>>

RECURSIVE ProcessRows(_, _, _, _)
\* for _, row in sig_df.iterrows()
ProcessRows(data, date, rows, acc) ==
    IF rows = <<>> THEN acc
    ELSE ProcessRows(data, date, Tail(rows), ProcessRow(data, date, Head(rows).symbol, acc))

RECURSIVE ProcessSignals(_, _, _, _)
\* for strat_name, sig_df in signals.items(): acc is <<results, equity>>
ProcessSignals(data, date, sigs, acc) ==
    IF sigs = <<>> THEN acc
    ELSE LET strat_name == Head(sigs)[1]
             res == IF DictHas(acc[1], strat_name) THEN acc[1] ELSE DictSet(acc[1], strat_name, <<>>)
             eq == IF DictHas(acc[1], strat_name) THEN acc[2]
                   ELSE DictSet(acc[2], strat_name, <<N(100000)>>)
             lists == ProcessRows(data, date, Head(sigs)[2],
                                  <<DictGet(res, strat_name), DictGet(eq, strat_name)>>)
         IN  ProcessSignals(data, date, Tail(sigs),
                            <<DictSet(res, strat_name, lists[1]), DictSet(eq, strat_name, lists[2])>>)

\* the data handed to the scanners with nothing cut off
DailyData_NoSlice(data, date) == data

\* daily_data[sym] = df[df.index <= current_date]
DailyData(data, date) ==
    [sym \in DOMAIN data |-> SelectSeq(data[sym], LAMBDA bar : bar.date <= date)]

\* pd.date_range(start_ts, end_ts, freq='B'): the weekdays of the range
TradingDays(range) == {d \in range[1]..range[2] : d % 7 \notin {6, 0}}

\* the button RUN FULL BACKTEST is clicked
RunBacktestClick ==
    /\ bt_pc \in {"idle", "done"}
    /\ bt_pc' = "running"
    /\ results' = <<>>
    /\ equity' = <<>>
    /\ current_date' = 0
    /\ daily_data' = <<>>
    /\ signals' = <<>>
    /\ UNCHANGED <<bt_data, bt_range>>

\* one pass of the loop over trading_days
BacktestDay ==
    /\ bt_pc = "running"
    /\ \E d \in TradingDays(bt_range) :
          /\ d > current_date
          /\ \A e \in TradingDays(bt_range) : e > current_date => d <= e
          /\ current_date' = d
          /\ daily_data' = DailyData(bt_data, d)
          /\ signals' = run_all_scanners(DailyData(bt_data, d))
          /\ LET acc == ProcessSignals(bt_data, d, run_all_scanners(DailyData(bt_data, d)),
                                       <<results, equity>>)
             IN  results' = acc[1] /\ equity' = acc[2]
    /\ UNCHANGED <<bt_data, bt_range, bt_pc>>

\* the loop is over and the results are displayed
BacktestDisplay ==
    /\ bt_pc = "running"
    /\ \A d \in TradingDays(bt_range) : d <= current_date
    /\ bt_pc' = "done"
    /\ UNCHANGED <<bt_data, bt_range, current_date, daily_data, signals, results, equity>>

\* frames of one symbol: a gap up on day 2 with bars to exit on, a gap up on
\* day 9 with none, no signal, a first red day on day 4, eight rising bars
BtFrames ==
    LET Dates == <<1, 2, 3, 4, 5, 8, 9, 10, 11>>
        F(n, open, close) == [i \in 1..n |-> BtBar(Dates[i], open[i], close[i], 3)]
    IN  {F(8, <<10, 11, 12, 12, 12, 12, 12, 12>>, <<10, 12, 12, 12, 12, 12, 12, 13>>),
         F(7, <<10, 10, 10, 10, 10, 10, 11>>, <<10, 10, 10, 10, 10, 10, 12>>),
         F(5, <<10, 10, 10, 10, 10>>, <<10, 10, 10, 10, 10>>),
         F(9, <<10, 13, 13, 13, 12, 12, 12, 12, 12>>, <<13, 13, 13, 12, 12, 12, 12, 12, 12>>),
         F(8, <<9, 10, 12, 14, 16, 18, 20, 22>>, <<10, 12, 14, 16, 18, 20, 22, 24>>)}

InitBacktest ==
    /\ bt_data \in [Range(Symbols) -> BtFrames]
    /\ bt_range \in {<<1, 5>>, <<1, 11>>, <<2, 9>>, <<4, 3>>}
    /\ bt_pc = "idle"
    /\ current_date = 0
    /\ daily_data = <<>>
    /\ signals = <<>>
    /\ results = <<>>
    /\ equity = <<>>
    /\ DbIdle
    /\ ScannersIdle
    /\ PageIdle

NextBacktest ==
    /\ \/ RunBacktestClick
       \/ BacktestDay
       \/ BacktestDisplay
    /\ UNCHANGED <<company, price_history, scanner, pc>>
    /\ UNCHANGED <<rvars, hvars>>
    /\ UNCHANGED <<dvars, uvars>>

SpecBacktest == InitBacktest /\ [][NextBacktest]_vars

\* part holds exactly the bars of whole dated on or before date, in their order
BarsUpTo(part, whole, date) ==
    \E n \in 0..Len(whole) :
        /\ part = SubSeq(whole, 1, n)
        /\ \A i \in 1..Len(whole) : (whole[i].date <= date) <=> (i <= n)

\* C26: the backtest visits the days in increasing order, and the data handed
\* to run_all_scanners for day d holds for every symbol exactly the bars
\* dated on or before d, so that no signal can depend on a later bar.
C26_NoLookAhead ==
    [][bt_pc = "running" /\ current_date' # current_date =>
          /\ current_date' > current_date
          /\ DOMAIN daily_data' = DOMAIN bt_data
          /\ \A sym \in DOMAIN bt_data :
                BarsUpTo(daily_data'[sym], bt_data[sym], current_date')
          /\ signals' = run_all_scanners(daily_data')]_vars

\* a day has been scanned with a signal while bars of a later date are withheld
C26_Witness ==
    /\ bt_pc = "running" /\ current_date > 0
    /\ signals # <<>>
    /\ \E sym \in DOMAIN bt_data : 0 < Len(daily_data[sym]) /\ Len(daily_data[sym]) < Len(bt_data[sym])

\* the symbol has a close five bars after its latest bar on or before date
HasExitBar(sym, date) ==
    \E i \in 1..Len(bt_data[sym]) :
        /\ bt_data[sym][i].date <= date
        /\ \A j \in 1..Len(bt_data[sym]) : bt_data[sym][j].date <= date => j <= i
        /\ i + 5 <= Len(bt_data[sym])

\* every equity list runs one entry ahead of its returns, from 100000 to
\* 100000 times the product of (1 + pnl / 100)
EquityFollowsReturns ==
    /\ Len(equity) = Len(results)
    /\ \A i \in 1..Len(results) :
          LET pnls == results[i][2]
              eq == DictGet(equity, results[i][1])
              growth == [j \in 1..Len(pnls) |-> RAdd(N(1), RDiv(pnls[j], N(100)))]
          IN  /\ DictHas(equity, results[i][1])
              /\ Len(eq) = Len(pnls) + 1
              /\ eq[1] = N(100000)
              /\ eq[Len(eq)] = RMul(N(100000), SeqProd(growth, 1, Len(pnls)))

ListOf(dict, name) == IF DictHas(dict, name) THEN DictGet(dict, name) ELSE <<>>

define_parameters(kind) ==
    CASE kind = "golden_cross" ->
            [min_avg_volume |-> 100000, volume_lookback_days |-> 50,
             min_market_cap |-> 1000000000, crossover_lookback_days |-> 5,
             max_price_extension_pct |-> 5]
      [] kind = "death_cross" ->
            [min_avg_volume |-> 100000, volume_lookback_days |-> 50,
             min_market_cap |-> 1000000000, crossover_lookback_days |-> 5]
      [] kind = "new_highs" ->
            [min_avg_volume |-> 250000, volume_lookback_days |-> 50,
             min_market_cap |-> 1000000000, setup_lookback_days |-> 2]
      [] kind = "new_lows" ->
            [min_avg_volume |-> 250000, volume_lookback_days |-> 50,
             min_market_cap |-> 1000000000, setup_lookback_days |-> 2]
      [] kind = "selling_climax" ->
            [min_avg_volume |-> 250000, volume_lookback_days |-> 50,
             min_market_cap |-> 500000000, new_low_period |-> 20,
             volume_spike_multiplier |-> Rat(5, 2), close_reversal_pct |-> 50,
             setup_lookback_days |-> 2]
      [] kind = "undervalued_pb" ->
            [min_avg_volume |-> 100000, volume_lookback_days |-> 50,
             min_market_cap |-> 500000000, max_pb_ratio |-> Rat(3, 2),
             min_pb_ratio |-> Rat(1, 10), max_debt_to_equity |-> 2]
      [] kind = "wyckoff_spring" ->
            [min_avg_volume |-> 250000, volume_lookback_days |-> 50,
             min_market_cap |-> 1000000000, support_period |-> 60,
             max_volume_ratio |-> Rat(6, 5), max_box_height_pct |-> N(10),
             min_close_position_pct |-> N(50), setup_lookback_days |-> 2]

DefaultsScanners ==
    {[kind |-> k, params |-> [market |-> "us"]] :
        k \in {"golden_cross", "death_cross", "new_highs", "new_lows", "selling_climax",
               "undervalued_pb", "wyckoff_spring"}}

\* an active NYSE company with the market capitalisation cap and k bars of
\* the volume v, the last one today
DefaultsProfiles(id, caps, volumes) ==
    {<<Row(id, TRUE, "NYSE", N(cap), N(1)), History(Flat(k, v), Flat(k, 5), 0)>> :
        cap \in caps, v \in volumes, k \in {1, 2}}

InitDefaults ==
    InitRun([id \in CompanyIds |-> DefaultsProfiles(id, {750000000, 2000000000}, {150000, 300000})],
            [id \in CompanyIds |-> DefaultsProfiles(id, {2000000000}, {300000})],
            DefaultsScanners)

SpecDefaults == InitDefaults /\ [][Next]_vars

\* the scanner of the run with every absent parameter set to its declared default
WithDeclaredDefaults == [scanner EXCEPT !.params = scanner.params @@ define_parameters(scanner.kind)]

\* the companies that run_scan of sc hands to scan_company
ScannedBy(sc) ==
    LET ids == {id \in CompanyIds : CandidateQuery(sc, company[id])}
        fetched == GetPriceHistory(price_history, ids, ParamGet(sc.params, "days_back", 500))
    IN  {id \in DOMAIN fetched : PassesVolume(WithAvgVolume(fetched[id], sc.params), sc.params)}

\* C28: for every scanner and every parameter it declares, the value the
\* evaluation code uses when the parameter is absent from params equals the
\* declared default: a run without the parameters takes the candidates,
\* scans the companies and collects the records of a run with the declared
\* defaults passed in.
C28_FallbacksAreDeclaredDefaults ==
    pc = "done" =>
        /\ DOMAIN candidate_map =
              {id \in CompanyIds : CandidateQuery(WithDeclaredDefaults, company[id])}
        /\ Range(scanned) = ScannedBy(WithDeclaredDefaults)
        /\ passing_stocks = RunScan(WithDeclaredDefaults, company, price_history).passing

\* ---------------------------------------------------------------------------
\* The generic scanner page: the filter form, the list of active filters and
\* the run button. The widgets outside the record below stay at their
\* defaults, with which they add no filter.

\* an entry of generic_filters; display holds the parts of the text shown
UiFilter(display, name, op, value, is_display_only) ==
    [display |-> display, name |-> name, op |-> op, value |-> value,
     is_display_only |-> is_display_only]

\* the values of the form when the page is first loaded
DefaultWidgets ==
    [mc_selection |-> "Any", sector_selection |-> <<>>, min_avg_volume |-> 100000,
     volume_lookback |-> 50, pe_min |-> 0, pe_max |-> 100, sma_op |-> "Any", sma_period |-> 20]

WidgetValues ==
    {[DefaultWidgets EXCEPT !.mc_selection = mc, !.sector_selection = sec, !.pe_min = lo,
                            !.pe_max = hi, !.sma_op = op] :
        mc \in {"Any", "Small (300M-2B)", "Micro (<300M)"}, sec \in {<<>>},
        lo \in {0, 5}, hi \in {30, 100}, op \in {"Any", "Above"}}

\* mc_map[mc_selection] for the two smallest classes, None as Null
mc_map(mc_selection) ==
    IF mc_selection = "Small (300M-2B)" THEN <<N(300000000), N(2000000000)>>
    ELSE <<Null, N(300000000)>>

\* the list "Add Configured Filters" builds from the values w of the form
ConfiguredFilters(w) ==
    LET mc == mc_map(w.mc_selection)
        op_symbol == IF w.sma_op = "Above" THEN ">" ELSE "<"
        pe_text == IF w.pe_min > 0 /\ w.pe_max < 100 THEN <<w.pe_min, " < P/E < ", w.pe_max>>
                   ELSE IF w.pe_min > 0 THEN <<"P/E > ", w.pe_min>>
                   ELSE <<"P/E < ", w.pe_max>>
        When(cond, entries) == IF cond THEN entries ELSE <<>>
    IN  When(w.mc_selection # "Any" /\ mc[1] # Null,
             <<UiFilter(<<"Market Cap > ", w.mc_selection>>, "marketcap", ">=", mc[1], FALSE)>>)
        \o When(w.mc_selection # "Any" /\ mc[2] # Null,
                <<UiFilter(<<"Market Cap < ", w.mc_selection>>, "marketcap", "<", mc[2], FALSE)>>)
        \o When(w.sector_selection # <<>>,
                <<UiFilter(<<"Sector in ", w.sector_selection>>, "sector", "in",
                           w.sector_selection, FALSE)>>)
        \o <<UiFilter(<<"Min. Avg. Volume > ", w.min_avg_volume>>, "min_avg_volume", ">",
                      w.min_avg_volume, FALSE),
             UiFilter(<<"Avg. Volume Lookback = ", w.volume_lookback>>, "volume_lookback_days",
                      "=", w.volume_lookback, FALSE)>>
        \o When(w.pe_min > 0 \/ w.pe_max < 100,
                <<UiFilter(pe_text, "trailingpe", ">", w.pe_min, FALSE),
                  UiFilter(<<"P/E Range Max">>, "trailingpe", "<", w.pe_max, TRUE)>>)
        \o When(w.sma_op # "Any",
                <<UiFilter(<<"Price ", op_symbol, " SMA", w.sma_period>>, "sma", op_symbol,
                           [period |-> w.sma_period], FALSE)>>)

\* list.pop(i), i from 1
Pop(list, i) == SubSeq(list, 1, i - 1) \o SubSeq(list, i + 1, Len(list))

\* the form is submitted with the values w: the list is rebuilt from them
AddConfiguredFilters ==
    /\ last_click # "off"
    /\ \E w \in WidgetValues :
          /\ widgets' = w
          /\ generic_filters' = ConfiguredFilters(w)
    /\ last_click' = "add"
    /\ UNCHANGED <<sent, generic_scanner_results_df>>

\* the Remove button of a displayed entry
RemoveClick ==
    /\ last_click # "off"
    /\ \E i \in 1..Len(generic_filters) :
          /\ ~generic_filters[i].is_display_only
          /\ generic_filters' = Pop(generic_filters, i)
    /\ last_click' = "remove"
    /\ UNCHANGED <<widgets, sent, generic_scanner_results_df>>

\* the params the page builds for the scanner instance
FullParams(filters) ==
    LET VolumeValue(name, default) ==
            IF \E i \in 1..Len(filters) : filters[i].name = name
            THEN filters[CHOOSE i \in 1..Len(filters) :
                            /\ filters[i].name = name
                            /\ \A j \in 1..(i - 1) : filters[j].name # name].value
            ELSE default
    IN  [market |-> "us",
         min_avg_volume |-> VolumeValue("min_avg_volume", 100000),
         volume_lookback_days |-> VolumeValue("volume_lookback_days", 50),
         filters |-> SelectSeq(filters, LAMBDA f : f.name \notin {"min_avg_volume",
                                                                  "volume_lookback_days"})]

\* the button Run Generic Screener: a warning on an empty list, else the scan,
\* whose table is stored unless run_scan raises
RunGenericScreener ==
    /\ last_click # "off"
    /\ last_click' = "run"
    /\ IF generic_filters = <<>>
       THEN UNCHANGED <<sent, generic_scanner_results_df>>
       ELSE /\ sent' = FullParams(generic_filters)
            /\ generic_scanner_results_df' \in {"table", generic_scanner_results_df}
    /\ UNCHANGED <<widgets, generic_filters>>

InitPage ==
    /\ widgets = DefaultWidgets
    /\ generic_filters = <<>>
    /\ last_click = "none"
    /\ sent = <<>>
    /\ generic_scanner_results_df = "empty"
    /\ DbIdle
    /\ BacktestIdle
    /\ ScannersIdle

NextPage ==
    /\ \/ AddConfiguredFilters
       \/ RemoveClick
       \/ RunGenericScreener
    /\ UNCHANGED <<company, price_history, scanner, pc>>
    /\ UNCHANGED <<rvars, hvars>>
    /\ UNCHANGED <<dvars, bvars>>

SpecPage == InitPage /\ [][NextPage]_vars

\* entry i of the list is shown under Active Filters, or is the hidden half
\* of a range whose other half is shown
ShownAt(list, i) ==
    \/ ~list[i].is_display_only
    \/ \E j \in 1..Len(list) : ~list[j].is_display_only /\ list[j].name = list[i].name

\* C29: the filters a scan applies are the filters shown under Active
\* Filters: after any clicks on Add Configured Filters and Remove every entry
\* of generic_filters, and every entry sent to the scanner, belongs to a
\* displayed filter, so that no trailingpe condition is left once the shown
\* P/E range is removed; and a second click on Add Configured Filters with
\* the same values of the form leaves the list as the first click made it.
C29_AppliedFiltersAreShown ==
    [][/\ \A i \in 1..Len(generic_filters') : ShownAt(generic_filters', i)
       /\ last_click' = "run" /\ sent' # sent =>
             \A k \in 1..Len(sent'.filters) :
                 \E i \in 1..Len(generic_filters') :
                     generic_filters'[i] = sent'.filters[k] /\ ShownAt(generic_filters', i)
       /\ last_click = "add" /\ last_click' = "add" /\ widgets' = widgets =>
             generic_filters' = generic_filters]_vars

\* the same statement for the lists from which no half of a range was removed
C29_ShownUnlessRangeRemoved ==
    [][/\ (\A i \in 1..Len(generic_filters) : ShownAt(generic_filters, i))
          /\ (last_click' # "remove" \/ \E i \in 1..Len(generic_filters) :
                 /\ generic_filters[i].name # "trailingpe"
                 /\ generic_filters' = Pop(generic_filters, i))
          => \A i \in 1..Len(generic_filters') : ShownAt(generic_filters', i)
       /\ last_click = "add" /\ last_click' = "add" /\ widgets' = widgets =>
             generic_filters' = generic_filters]_vars

\* ---------------------------------------------------------------------------
\* Technical filters without an evaluation branch: the name adx with any
\* operator, and sma, macd, stoch and bbands with an operator none of their
\* branches tests, alone or after a filter that passes.

UnhandledFilters ==
    {Filter("adx", op, VMap([period |-> 3])) : op \in {">", "<", "above", "cross_above"}}
    \cup {Filter("sma", op, VMap([period |-> 3])) : op \in {"above", "cross_above"}}
    \cup {Filter("macd", op, VMap([fastperiod |-> 2, slowperiod |-> 3, signalperiod |-> 2])) :
             op \in {">", "above"}}
    \cup {Filter("stoch", op, VMap([fastk_period |-> 2, slowk_period |-> 2, slowd_period |-> 2,
                                    value |-> N(50)])) :
             op \in {">", "cross_above_upper"}}
    \cup {Filter("bbands", op, VMap([period |-> 3, nbdevup |-> N(1), nbdevdn |-> N(1)])) :
             op \in {">", "cross_above"}}

UnhandledCases ==
    {<< <<[kind |-> "generic", params |-> BaseParams(2, 1) @@ [filters |-> fs]]>>,
        OHLCHistory(SubSeq(c, 1, n)) >> :
            fs \in UNION {{<<f>>, <<Filter("sma", ">", VMap([period |-> 2])), f>>} :
                             f \in UnhandledFilters},
            c \in TechCloses, n \in 1..6}

InitUnhandled ==
    /\ \E case \in UnhandledCases :
          /\ h_scanners = case[1]
          /\ h_group = GroupOf(case[2], case[1][1].params)
    /\ h_info = [k \in 1..Len(h_scanners) |-> object_as_dict(StdRow(1))]
    /\ h_log = [k \in 1..Len(h_scanners) |-> <<>>]
    /\ OtherIdle
    /\ pc = "harness"
    /\ company = <<>>
    /\ price_history = <<>>
    /\ scanner = [kind |-> "custom", params |-> BaseParams(2, 1)]
    /\ candidate_map = <<>>
    /\ price_df = <<>>
    /\ todo = <<>>
    /\ scanned = <<>>
    /\ passing_stocks = <<>>
    /\ result = NoResult

SpecUnhandled == InitUnhandled /\ [][NextPure]_vars

\* the filter of the list that has no evaluation branch
UnhandledFilter ==
    LET fs == ParamGet(h_scanners[1].params, "filters", <<>>) IN fs[Len(fs)]

\* C30: a technical filter whose name and operator have no evaluation branch
\* (adx with any operator; sma, macd, stoch or bbands with an unrecognized
\* operator) rejects every company without raising: every scan of a filter
\* list that contains it is a non-match.
C30_UnhandledFilterRejects ==
    \A i \in 1..Len(h_log[1]) : h_log[1][i].out = "none"

\* the same statement for the filters other than sma
C30_UnhandledRejectsButAverage ==
    UnhandledFilter.name # "sma" => \A i \in 1..Len(h_log[1]) : h_log[1][i].out = "none"

====
